---- MODULE Spec2Model ----
(***************************************************************************)
(* md-merge: RGA sequence CRDT (src/src/crdt/rga.ts), the RGA-backed mdast *)
(* tree (src/src/rga-tree.ts) and the index-based diff                     *)
(* (src/unnamed/part_003, the repository's diff.ts).                       *)
(*                                                                         *)
(* An RGA's `nodes` Map is a sequence of node records in Map insertion     *)
(* order: JavaScript Maps iterate in insertion order, and allOrdered       *)
(* reads them in that order before it sorts.                               *)
(*                                                                         *)
(* generateRGAChangeSet, applyRGAChangeSet and mergeRGATrees are not in    *)
(* src/; they follow sections 4.3, 4.4 and 4.5 of the specification, over  *)
(* the RGA, the diff and convertNode of the source.                        *)
(***************************************************************************)
EXTENDS Integers, Sequences, FiniteSets, TLC

\* ---------------------------------------------------------------- bounds
NumReplicas == 3
NumEvents == 2
MaxUuid == 4
MaxDeletes == 1
MaxBlocks == 2
MaxInline == 1
UuidSlot == 10
MaxItems == 3
MaxInserts == 1

Replicas == 1..NumReplicas
\* the replicas that edit locally; the others only merge
Editors == Replicas \ {NumReplicas}
Events == 1..NumEvents
Uuids == 1..MaxUuid
\* the value replica r inserts, and the items of the base sequence
InsertValue(r) == <<"b1", "b2", "b3", "b4">>[r]
BaseItems == <<"a", "c">>
\* the uuids the base sequence got: fresh uuids fall below and above them
BaseUuids == <<2, 3>>

\* the replicas of one RGA, and the items the RGA was built from
VARIABLES nodes, used, ndel, fromItems
\* an existing tree, the edit made to it, and each application's result
VARIABLES base, edit, out
\* the changesets generated against the tree, the replicas they are applied at
\* (with the names of the changesets applied so far), and a merge of the replicas
VARIABLES cs, repl, applied, merged
\* the objects of one process (an RGA object per address), the input tree as it
\* was when it was built, the roots the calls returned, and the number of edits
\* made to returned trees in place
VARIABLES heap, hin, houts, nedit
\* a call of one of the pure functions: its arguments, and what it and the
\* calls made on its result returned so far (step counts those calls)
VARIABLES args, ret

rgaVars == <<nodes, used, ndel, fromItems>>

treeVars == <<base, edit, out>>

csVars == <<cs, repl, applied, merged>>

heapVars == <<heap, hin, houts, nedit>>

callVars == <<args, ret>>

vars == <<nodes, used, ndel, fromItems, base, edit, out, cs, repl, applied, merged,
          heap, hin, houts, nedit, args, ret>>

\* ------------------------------------------------------------ RGA (rga.ts)
\* `undefined` as an afterId: the virtual root (ROOT_KEY in allOrdered)
NoId == [uuid |-> 0, event |-> 0]

NodeId(uuid, event) == [uuid |-> uuid, event |-> event]

\* the caller's EventComparator; events are opaque values with a total order
compareEvents(a, b) == IF a < b THEN -1 ELSE IF a > b THEN 1 ELSE 0

\* mutant: ids are compared by event alone
compareIds_eventOnly(a, b) == compareEvents(a.event, b.event)

compareIds(a, b) ==
    LET cmp == compareEvents(a.event, b.event)
    IN  IF cmp # 0 THEN cmp
        ELSE IF a.uuid < b.uuid THEN -1
        ELSE IF a.uuid > b.uuid THEN 1
        ELSE 0

\* Map.has / Map.get by serializeId(id)
MapHas(m, id) == \E i \in DOMAIN m : m[i].id = id

MapGet(m, id) == m[CHOOSE i \in DOMAIN m : m[i].id = id]

\* Map.set: an existing key keeps its place, a new key goes last
MapSet(m, node) ==
    IF MapHas(m, node.id)
    THEN [i \in DOMAIN m |-> IF m[i].id = node.id THEN node ELSE m[i]]
    ELSE Append(m, node)

\* an insert whose id is made of the event alone
insert_eventKey(m, afterId, value, event, uuid) ==
    MapSet(m, [id |-> NodeId(MaxUuid + 1, event), value |-> value,
               afterId |-> afterId, tombstone |-> FALSE])

\* RGA.insert with the uuid that randomUUID() returned
insert(m, afterId, value, event, uuid) ==
    MapSet(m, [id |-> NodeId(uuid, event), value |-> value,
               afterId |-> afterId, tombstone |-> FALSE])

\* mutant: a delete flips the flag
delete_toggle(m, id) ==
    [i \in DOMAIN m |->
        IF m[i].id = id THEN [m[i] EXCEPT !.tombstone = ~@] ELSE m[i]]

\* RGA.delete
delete(m, id) ==
    [i \in DOMAIN m |->
        IF m[i].id = id THEN [m[i] EXCEPT !.tombstone = TRUE] ELSE m[i]]

\* Array.prototype.sort with compareIds (stable): insertion of x into a sorted list
RECURSIVE sortedInsert(_, _, _)
sortedInsert(list, x, i) ==
    IF i > Len(list) THEN Append(list, x)
    ELSE IF compareIds(x.id, list[i].id) < 0
         THEN SubSeq(list, 1, i - 1) \o <<x>> \o SubSeq(list, i, Len(list))
         ELSE sortedInsert(list, x, i + 1)

RECURSIVE sortFrom(_, _, _)
sortFrom(list, k, acc) ==
    IF k > Len(list) THEN acc
    ELSE sortFrom(list, k + 1, sortedInsert(acc, list[k], 1))

\* mutant: the sibling lists are left in Map insertion order
sortKids_unsorted(list) == list

\* mutant: among siblings the live nodes come first
sortKids_liveFirst(list) ==
    sortFrom(SelectSeq(list, LAMBDA n : ~n.tombstone), 1, <<>>)
        \o sortFrom(SelectSeq(list, LAMBDA n : n.tombstone), 1, <<>>)

\* list.sort((a, b) => this.compareIds(a.id, b.id))
sortKids(list) == sortFrom(list, 1, <<>>)

\* mutant: a node whose afterId names no node of the Map is put under the root
childrenOf_adopt(m, key) ==
    SelectSeq(m, LAMBDA n :
        \/ n.afterId = key
        \/ key = NoId /\ ~MapHas(m, n.afterId))

\* children.get(key): the nodes whose afterId is key, in Map order
childrenOf(m, key) == SelectSeq(m, LAMBDA n : n.afterId = key)

RECURSIVE visit(_, _)
RECURSIVE visitKids(_, _, _)
visitKids(m, kids, i) ==
    IF i > Len(kids) THEN <<>>
    ELSE <<kids[i]>> \o visit(m, kids[i].id) \o visitKids(m, kids, i + 1)

visit(m, parentKey) == visitKids(m, sortKids(childrenOf(m, parentKey)), 1)

\* RGA.allOrdered / toAllNodes
allOrdered(m) == visit(m, NoId)

toAllNodes(m) == allOrdered(m)

\* mutant: a node whose predecessor is tombstoned is hidden with it
toNodes_underLive(m) ==
    SelectSeq(allOrdered(m), LAMBDA n :
        /\ ~n.tombstone
        /\ n.afterId # NoId /\ MapHas(m, n.afterId) => ~MapGet(m, n.afterId).tombstone)

toNodes(m) == SelectSeq(allOrdered(m), LAMBDA n : ~n.tombstone)

toArray(m) ==
    LET ns == toNodes(m) IN [i \in DOMAIN ns |-> ns[i].value]

\* RGA.merge: `other` is read in its Map order
RECURSIVE mergeFrom(_, _, _)
mergeFrom(this, other, k) ==
    IF k > Len(other) THEN this
    ELSE LET node == other[k]
         IN  IF ~MapHas(this, node.id)
             THEN mergeFrom(MapSet(this, node), other, k + 1)
             ELSE IF node.tombstone
                  THEN mergeFrom(delete(this, node.id), other, k + 1)
                  ELSE mergeFrom(this, other, k + 1)

\* mutant: a node whose predecessor is not in the map is not taken over
RECURSIVE merge_knownOnly(_, _)
merge_knownOnly(this, other) ==
    IF other = <<>> THEN this
    ELSE LET node == Head(other)
         IN  IF MapHas(this, node.id)
             THEN merge_knownOnly(IF node.tombstone THEN delete(this, node.id)
                                  ELSE this, Tail(other))
             ELSE IF node.afterId = NoId \/ MapHas(this, node.afterId)
             THEN merge_knownOnly(MapSet(this, node), Tail(other))
             ELSE merge_knownOnly(this, Tail(other))

\* mutant: tombstones of nodes already present are not taken over
merge_noTombstone(this, other) ==
    this \o SelectSeq(other, LAMBDA n : ~MapHas(this, n.id))

\* mutant: every node of other is added again, present or not
merge_noLookup(this, other) == this \o other

\* mutant: a node copied in starts out live, as a fresh insert does
merge_copyLive(this, other) ==
    LET ored == [i \in DOMAIN this |->
                    IF \E j \in DOMAIN other :
                          other[j].id = this[i].id /\ other[j].tombstone
                    THEN [this[i] EXCEPT !.tombstone = TRUE] ELSE this[i]]
        new == SelectSeq(other, LAMBDA n : ~MapHas(this, n.id))
    IN  ored \o [i \in DOMAIN new |-> [new[i] EXCEPT !.tombstone = FALSE]]

\* mutant: the record of other replaces the local one
merge_overwrite(this, other) ==
    [i \in DOMAIN this |->
        IF MapHas(other, this[i].id) THEN MapGet(other, this[i].id) ELSE this[i]]
    \o SelectSeq(other, LAMBDA n : ~MapHas(this, n.id))

merge(this, other) == mergeFrom(this, other, 1)

\* RGA.fromArray; us are the uuids the inserts mint, in order
RECURSIVE fromArrayFrom(_, _, _, _, _, _)
fromArrayFrom(items, event, us, k, rga, afterId) ==
    IF k > Len(items) THEN rga
    ELSE fromArrayFrom(items, event, us, k + 1,
                       insert(rga, afterId, items[k], event, us[k]),
                       NodeId(us[k], event))

\* mutant: every item is inserted at the start, not after the previous one
fromArray_unchained(items, event, us) ==
    [i \in DOMAIN items |->
        [id |-> NodeId(us[i], event), value |-> items[i], afterId |-> NoId,
         tombstone |-> FALSE]]

fromArray(items, event, us) == fromArrayFrom(items, event, us, 1, <<>>, NoId)

\* RGA.idAtIndex (0-based index; NoId is `undefined`)
idAtIndex(m, index) ==
    LET ns == toNodes(m)
    IN  IF index < Len(ns) THEN ns[index + 1].id ELSE NoId

\* ------------------------------------------------- mdast documents
\* An mdast node is a record: a leaf has no `children` field, a parent has one.
Text(v) == [type |-> "text", value |-> v]

ThematicBreak == [type |-> "thematicBreak"]

Paragraph(kids) == [type |-> "paragraph", children |-> kids]

Root(kids) == [type |-> "root", children |-> kids]

\* hasChildren (diff.ts) / isParent (rga-tree.ts)
hasChildren(node) == "children" \in DOMAIN node

nodeType(node) == node.type

\* stringifyNode: the markdown of one node, as a sequence of tokens
RECURSIVE stringifyNode(_)
RECURSIVE stringifyAll(_, _)
stringifyAll(kids, k) ==
    IF k > Len(kids) THEN <<>>
    ELSE stringifyNode(kids[k]) \o stringifyAll(kids, k + 1)

stringifyNode(node) ==
    IF hasChildren(node) THEN stringifyAll(node.children, 1) \o <<"\n\n">>
    ELSE IF node.type = "text" THEN <<node.value>>
    ELSE <<"***", "\n\n">>

\* fingerprint (parse.ts) / fpChild (diff.ts)
fingerprint(node) == stringifyNode(node)

fpChild(node) == fingerprint(node)

\* ------------------------------------------------- diff (diff.ts)
Max(a, b) == IF a >= b THEN a ELSE b

\* lcsTable: table[i][j] for 0 <= i <= m, 0 <= j <= n
lcsTable(a, b) ==
    LET table[i \in 0..Len(a), j \in 0..Len(b)] ==
            IF i = 0 \/ j = 0 THEN 0
            ELSE IF a[i] = b[j] THEN table[i - 1, j - 1] + 1
            ELSE Max(table[i - 1, j], table[i, j - 1])
    IN  table

\* lcsMatches: the backtrack from (i, j); pairs are 0-based <<oldIndex, newIndex>>
RECURSIVE lcsMatchesFrom(_, _, _, _, _)
lcsMatchesFrom(aFp, bFp, table, i, j) ==
    IF ~(i > 0 /\ j > 0) THEN <<>>
    ELSE IF aFp[i] = bFp[j]
         THEN Append(lcsMatchesFrom(aFp, bFp, table, i - 1, j - 1), <<i - 1, j - 1>>)
         ELSE IF table[i - 1, j] >= table[i, j - 1]
              THEN lcsMatchesFrom(aFp, bFp, table, i - 1, j)
              ELSE lcsMatchesFrom(aFp, bFp, table, i, j - 1)

\* mutant: the backtrack finds no match
lcsMatches_none(aFp, bFp, table) == <<>>

lcsMatches(aFp, bFp, table) == lcsMatchesFrom(aFp, bFp, table, Len(aFp), Len(bFp))

\* a Change of types.ts; `before` is <<>> when the change has none
Change(type, path, ns, before) ==
    [type |-> type, path |-> path, nodes |-> ns, before |-> before]

RECURSIVE diffGapFrom(_, _, _, _, _, _, _)
RECURSIVE diffChildren(_, _, _)
RECURSIVE diffMatches(_, _, _, _, _, _, _)

\* diffGap: the loops over oi and ni (0-based)
diffGapFrom(oldNodes, newNodes, oldStartIdx, newStartIdx, pathPrefix, oi, ni) ==
    IF oi < Len(oldNodes) /\ ni < Len(newNodes)
    THEN LET oldNode == oldNodes[oi + 1]
             newNode == newNodes[ni + 1]
         IN  IF nodeType(oldNode) = nodeType(newNode)
                /\ hasChildren(oldNode) /\ hasChildren(newNode)
             THEN diffChildren(oldNode.children, newNode.children,
                               Append(pathPrefix, newStartIdx + ni))
                  \o diffGapFrom(oldNodes, newNodes, oldStartIdx, newStartIdx,
                                 pathPrefix, oi + 1, ni + 1)
             ELSE IF nodeType(oldNode) = nodeType(newNode)
             THEN <<Change("modify", Append(pathPrefix, newStartIdx + ni),
                           <<newNode>>, <<oldNode>>)>>
                  \o diffGapFrom(oldNodes, newNodes, oldStartIdx, newStartIdx,
                                 pathPrefix, oi + 1, ni + 1)
             ELSE <<Change("delete", Append(pathPrefix, oldStartIdx + oi),
                           <<oldNode>>, <<>>)>>
                  \o diffGapFrom(oldNodes, newNodes, oldStartIdx, newStartIdx,
                                 pathPrefix, oi + 1, ni)
    ELSE IF oi < Len(oldNodes)
    THEN <<Change("delete", Append(pathPrefix, oldStartIdx + oi),
                  <<oldNodes[oi + 1]>>, <<>>)>>
         \o diffGapFrom(oldNodes, newNodes, oldStartIdx, newStartIdx,
                        pathPrefix, oi + 1, ni)
    ELSE IF ni < Len(newNodes)
    THEN <<Change("insert", Append(pathPrefix, newStartIdx + ni),
                  <<newNodes[ni + 1]>>, <<>>)>>
         \o diffGapFrom(oldNodes, newNodes, oldStartIdx, newStartIdx,
                        pathPrefix, oi, ni + 1)
    ELSE <<>>

diffGap(oldNodes, newNodes, oldStartIdx, newStartIdx, pathPrefix) ==
    diffGapFrom(oldNodes, newNodes, oldStartIdx, newStartIdx, pathPrefix, 0, 0)

\* diffChildren: the loop over the matches, then the trailing gap
diffMatches(oldChildren, newChildren, pathPrefix, matches, k, prevOld, prevNew) ==
    IF k > Len(matches)
    THEN IF prevOld < Len(oldChildren) \/ prevNew < Len(newChildren)
         THEN diffGap(SubSeq(oldChildren, prevOld + 1, Len(oldChildren)),
                      SubSeq(newChildren, prevNew + 1, Len(newChildren)),
                      prevOld, prevNew, pathPrefix)
         ELSE <<>>
    ELSE LET oi == matches[k][1]
             ni == matches[k][2]
         IN  (IF oi > prevOld \/ ni > prevNew
              THEN diffGap(SubSeq(oldChildren, prevOld + 1, oi),
                           SubSeq(newChildren, prevNew + 1, ni),
                           prevOld, prevNew, pathPrefix)
              ELSE <<>>)
             \o diffMatches(oldChildren, newChildren, pathPrefix, matches,
                            k + 1, oi + 1, ni + 1)

diffChildren(oldChildren, newChildren, pathPrefix) ==
    LET oldFp == [i \in DOMAIN oldChildren |-> fpChild(oldChildren[i])]
        newFp == [i \in DOMAIN newChildren |-> fpChild(newChildren[i])]
        table == lcsTable(oldFp, newFp)
        matches == lcsMatches(oldFp, newFp, table)
    IN  diffMatches(oldChildren, newChildren, pathPrefix, matches, 1, 0, 0)

\* diff: the changes of the ChangeSet
diff(oldRoot, newRoot) == diffChildren(oldRoot.children, newRoot.children, <<>>)

\* comparePaths: the first differing index decides, then the length
RECURSIVE comparePaths(_, _, _)
comparePaths(a, b, i) ==
    IF i > Len(a) \/ i > Len(b) THEN Len(a) - Len(b)
    ELSE IF a[i] # b[i] THEN a[i] - b[i]
    ELSE comparePaths(a, b, i + 1)

\* the comparator of applyChangeSet's sort: deepest first, then higher paths first
compareChanges(a, b) ==
    IF Len(a.path) # Len(b.path) THEN Len(b.path) - Len(a.path)
    ELSE 0 - comparePaths(a.path, b.path, 1)

\* Array.prototype.sort with compareChanges (stable)
RECURSIVE sortedInsertByPath(_, _, _)
sortedInsertByPath(sorted, c, k) ==
    IF k > Len(sorted) THEN Append(sorted, c)
    ELSE IF compareChanges(c, sorted[k]) < 0
         THEN SubSeq(sorted, 1, k - 1) \o <<c>> \o SubSeq(sorted, k, Len(sorted))
         ELSE sortedInsertByPath(sorted, c, k + 1)

RECURSIVE sortByPathFrom(_, _, _)
sortByPathFrom(list, k, acc) ==
    IF k > Len(list) THEN acc
    ELSE sortByPathFrom(list, k + 1, sortedInsertByPath(acc, list[k], 1))

sortByPath(list) == sortByPathFrom(list, 1, <<>>)

\* Array.prototype.splice(index, deleteCount, ...items), index counted from 0
splice(siblings, index, deleteCount, its) ==
    LET n == Len(siblings)
        at == IF index > n THEN n ELSE index
        upto == IF at + deleteCount > n THEN n ELSE at + deleteCount
    IN  SubSeq(siblings, 1, at) \o its \o SubSeq(siblings, upto + 1, n)

\* navigateToParent and the splice on the siblings it returns; the node is
\* returned as it is when navigateToParent returns null
RECURSIVE applyOne(_, _, _)
applyOne(node, change, i) ==
    IF ~hasChildren(node) THEN node
    ELSE IF i = Len(change.path)
    THEN LET index == change.path[i]
         IN  [node EXCEPT !.children =
                IF change.type = "insert" THEN splice(@, index, 0, change.nodes)
                ELSE IF change.type = "delete" THEN splice(@, index, 1, <<>>)
                ELSE splice(@, index, 1, change.nodes)]
    ELSE IF change.path[i] + 1 > Len(node.children) THEN node
    ELSE [node EXCEPT !.children[change.path[i] + 1] = applyOne(@, change, i + 1)]

RECURSIVE applySorted(_, _, _)
applySorted(root, sorted, k) ==
    IF k > Len(sorted) THEN root
    ELSE applySorted(applyOne(root, sorted[k], 1), sorted, k + 1)

\* applyChangeSet: a deep copy of the root, the changes applied to it in
\* sorted order
applyChangeSet(root, changeset) == applySorted(root, sortByPath(changeset), 1)

\* ------------------------------------------------- RGA tree (rga-tree.ts)
\* randomUUID: a supply hands out the uuids of one operation, from `next` on in
\* steps of `step`.  Which supply an operation gets is a nondeterministic choice.
Mint(s) == s.next

Advance(s, n) == [s EXCEPT !.next = @ + n * s.step]

isParent(node) == "children" \in DOMAIN node

isRGAParent(node) == "children" \in DOMAIN node

RECURSIVE convertNode(_, _, _)
RECURSIVE childrenToRGA(_, _, _)
RECURSIVE convertAll(_, _, _, _, _)

\* children.map(child => convertNode(child, ...)), minting as it goes
convertAll(children, event, s, k, acc) ==
    IF k > Len(children) THEN [items |-> acc, s |-> s]
    ELSE LET c == convertNode(children[k], event, s)
         IN  convertAll(children, event, c.s, k + 1, Append(acc, c.node))

childrenToRGA(children, event, s) ==
    LET c == convertAll(children, event, s, 1, <<>>)
        n == Len(children)
        us == [i \in 1..n |-> c.s.next + (i - 1) * c.s.step]
    IN  [rga |-> fromArray(c.items, event, us), s |-> Advance(c.s, n)]

convertNode(node, event, s) ==
    IF ~isParent(node) THEN [node |-> node, s |-> s]
    ELSE LET r == childrenToRGA(node.children, event, s)
         IN  [node |-> [node EXCEPT !.children = r.rga], s |-> r.s]

toRGATree(root, event, s) ==
    [type |-> "root", children |-> childrenToRGA(root.children, event, s).rga]

RECURSIVE rgaToChildren(_)
RECURSIVE revertNode(_)
rgaToChildren(rga) ==
    LET vals == toArray(rga)
    IN  [i \in DOMAIN vals |-> revertNode(vals[i])]

revertNode(node) ==
    IF ~isRGAParent(node) THEN node
    ELSE [node EXCEPT !.children = rgaToChildren(@)]

toMdast(rgaRoot) == [type |-> "root", children |-> rgaToChildren(rgaRoot.children)]

\* cloneRGA: a copy of every node of the Map, in Map order, nested RGAs copied too
RECURSIVE cloneRGA(_)
cloneRGA(rga) ==
    [i \in DOMAIN rga |->
        [id |-> rga[i].id,
         value |-> IF isRGAParent(rga[i].value)
                   THEN [rga[i].value EXCEPT !.children = cloneRGA(@)]
                   ELSE rga[i].value,
         afterId |-> rga[i].afterId,
         tombstone |-> rga[i].tombstone]]

\* change.path.slice(prefix.length)
relPath(change, prefix) == SubSeq(change.path, Len(prefix) + 1, Len(change.path))

lastIdx(change) == change.path[Len(change.path)]

\* the keys of the `deeper` Map, in the order they were first set
RECURSIVE deeperKeys(_, _, _, _)
deeperKeys(changes, prefix, k, acc) ==
    IF k > Len(changes) THEN acc
    ELSE LET rp == relPath(changes[k], prefix)
         IN  IF Len(rp) > 1 /\ ~(\E i \in DOMAIN acc : acc[i] = rp[1])
             THEN deeperKeys(changes, prefix, k + 1, Append(acc, rp[1]))
             ELSE deeperKeys(changes, prefix, k + 1, acc)

\* [...thisLevel].sort((a, b) => bIdx - aIdx): stable, highest index first
RECURSIVE sortedInsertChange(_, _, _)
sortedInsertChange(sorted, c, k) ==
    IF k > Len(sorted) THEN Append(sorted, c)
    ELSE IF lastIdx(sorted[k]) < lastIdx(c)
         THEN SubSeq(sorted, 1, k - 1) \o <<c>> \o SubSeq(sorted, k, Len(sorted))
         ELSE sortedInsertChange(sorted, c, k + 1)

RECURSIVE sortChangesFrom(_, _, _)
sortChangesFrom(list, k, acc) ==
    IF k > Len(list) THEN acc
    ELSE sortChangesFrom(list, k + 1, sortedInsertChange(acc, list[k], 1))

sortChanges(list) == sortChangesFrom(list, 1, <<>>)

\* for (const node of change.nodes) rga.insert(afterId, convertNode(node), event):
\* every node of the change is inserted after the same afterId
RECURSIVE insertNodes(_, _, _, _, _, _)
insertNodes(rga, afterId, ns, k, event, s) ==
    IF k > Len(ns) THEN [rga |-> rga, s |-> s]
    ELSE LET c == convertNode(ns[k], event, s)
         IN  insertNodes(insert(rga, afterId, c.node, event, Mint(c.s)),
                         afterId, ns, k + 1, event, Advance(c.s, 1))

\* one case of the switch on change.type
applyChange(rga, change, event, s) ==
    LET idx == lastIdx(change)
    IN  IF change.type = "delete"
        THEN LET nodeId == idAtIndex(rga, idx)
             IN  [rga |-> IF nodeId # NoId THEN delete(rga, nodeId) ELSE rga, s |-> s]
        ELSE IF change.type = "insert"
        THEN LET afterId == IF idx > 0 THEN idAtIndex(rga, idx - 1) ELSE NoId
             IN  insertNodes(rga, afterId, change.nodes, 1, event, s)
        ELSE LET nodeId == idAtIndex(rga, idx)
                 afterId == IF idx > 0 THEN idAtIndex(rga, idx - 1) ELSE NoId
                 del == IF nodeId # NoId THEN delete(rga, nodeId) ELSE rga
             IN  insertNodes(del, afterId, change.nodes, 1, event, s)

RECURSIVE applyChangesAtDepth(_, _, _, _, _)
RECURSIVE applyDeeper(_, _, _, _, _, _, _)
RECURSIVE applyThisLevel(_, _, _, _, _)

\* for (const [childIdx, childChanges] of deeper)
applyDeeper(rga, changes, prefix, keys, k, event, s) ==
    IF k > Len(keys) THEN [rga |-> rga, s |-> s]
    ELSE LET childIdx == keys[k]
             childChanges == SelectSeq(changes, LAMBDA c :
                                 /\ Len(relPath(c, prefix)) > 1
                                 /\ relPath(c, prefix)[1] = childIdx)
             childNode == idAtIndex(rga, childIdx)
         IN  IF childNode = NoId \/ ~isRGAParent(MapGet(rga, childNode).value)
             THEN applyDeeper(rga, changes, prefix, keys, k + 1, event, s)
             ELSE LET node == MapGet(rga, childNode)
                      r == applyChangesAtDepth(node.value.children, childChanges,
                                               Append(prefix, childIdx), event, s)
                  IN  applyDeeper(MapSet(rga, [node EXCEPT !.value.children = r.rga]),
                                  changes, prefix, keys, k + 1, event, r.s)

\* for (const change of sorted)
applyThisLevel(rga, sorted, k, event, s) ==
    IF k > Len(sorted) THEN [rga |-> rga, s |-> s]
    ELSE LET r == applyChange(rga, sorted[k], event, s)
         IN  applyThisLevel(r.rga, sorted, k + 1, event, r.s)

applyChangesAtDepth(rga, changes, prefix, event, s) ==
    LET thisLevel == SelectSeq(changes, LAMBDA c : Len(relPath(c, prefix)) = 1)
        keys == deeperKeys(changes, prefix, 1, <<>>)
        d == applyDeeper(rga, changes, prefix, keys, 1, event, s)
    IN  applyThisLevel(d.rga, sortChanges(thisLevel), 1, event, d.s)

applyMdast(existing, newRoot, event, s) ==
    LET oldMdast == toMdast(existing)
        changeset == diff(oldMdast, newRoot)
        updatedChildren == cloneRGA(existing.children)
    IN  [type |-> "root",
         children |-> applyChangesAtDepth(updatedChildren, changeset, <<>>, event, s).rga]

\* ------------------------------------ ID-addressed changesets (spec 4.3-4.5)
\* thrown by predecessorForIndex when nodes[index - 1] does not exist
TypeError == [uuid |-> 0, event |-> -1]

predecessorForIndex(m, index) ==
    LET ns == toNodes(m)
    IN  IF index <= 0 THEN NoId
        ELSE IF index - 1 < Len(ns) THEN ns[index].id ELSE TypeError

RGAChange(type, parentPath, targetId, afterId, ns, before) ==
    [type |-> type, parentPath |-> parentPath, targetId |-> targetId,
     afterId |-> afterId, nodes |-> ns, before |-> before]

\* walk path[1..k-1] by index from the root's children; ok is FALSE when a step fails
RECURSIVE walkByIndex(_, _, _, _)
walkByIndex(rga, path, i, parentPath) ==
    IF i >= Len(path) THEN [ok |-> TRUE, rga |-> rga, parentPath |-> parentPath]
    ELSE LET id == idAtIndex(rga, path[i])
         IN  IF id = NoId \/ ~isRGAParent(MapGet(rga, id).value)
             THEN [ok |-> FALSE, rga |-> rga, parentPath |-> parentPath]
             ELSE walkByIndex(MapGet(rga, id).value.children, path, i + 1,
                              Append(parentPath, id))

\* the resolved form of one index-based change: a sequence of zero or one RGAChange
resolveChange(tree, change) ==
    LET w == walkByIndex(tree.children, change.path, 1, <<>>)
        pk == lastIdx(change)
    IN  IF ~w.ok THEN <<>>
        ELSE IF change.type = "delete"
        THEN LET targetId == idAtIndex(w.rga, pk)
             IN  IF targetId # NoId
                 THEN <<RGAChange("delete", w.parentPath, targetId, NoId,
                                  change.nodes, <<>>)>>
                 ELSE <<>>
        ELSE IF change.type = "insert"
        THEN <<RGAChange("insert", w.parentPath, NoId,
                         predecessorForIndex(w.rga, pk), change.nodes, <<>>)>>
        ELSE LET targetId == idAtIndex(w.rga, pk)
             IN  IF targetId # NoId
                 THEN <<RGAChange("modify", w.parentPath, targetId,
                                  predecessorForIndex(w.rga, pk),
                                  change.nodes, change.before)>>
                 ELSE <<>>

RECURSIVE resolveAll(_, _, _)
resolveAll(tree, changes, k) ==
    IF k > Len(changes) THEN <<>>
    ELSE resolveChange(tree, changes[k]) \o resolveAll(tree, changes, k + 1)

\* threw is TRUE when resolving an insert raised the TypeError
generateRGAChangeSet(tree, newRoot, event) ==
    LET changes == resolveAll(tree, diff(toMdast(tree), newRoot), 1)
    IN  [event |-> event, changes |-> changes,
         threw |-> \E i \in DOMAIN changes : changes[i].afterId = TypeError]

\* the insert sequence: each insert after the id the previous one returned
RECURSIVE insertChain(_, _, _, _, _, _)
insertChain(rga, afterId, ns, k, event, s) ==
    IF k > Len(ns) THEN [rga |-> rga, s |-> s]
    ELSE LET c == convertNode(ns[k], event, s)
             uuid == Mint(c.s)
         IN  insertChain(insert(rga, afterId, c.node, event, uuid),
                         NodeId(uuid, event), ns, k + 1, event, Advance(c.s, 1))

executeChange(rga, change, event, s) ==
    IF change.type = "delete"
    THEN [rga |-> delete(rga, change.targetId), s |-> s]
    ELSE IF change.type = "insert"
    THEN insertChain(rga, change.afterId, change.nodes, 1, event, s)
    ELSE insertChain(delete(rga, change.targetId), change.afterId, change.nodes,
                     1, event, s)

\* the index of the visible node id in rga (0-based), -1 when it is not visible
IndexOfId(rga, id) ==
    LET ns == toNodes(rga)
    IN  IF \E i \in DOMAIN ns : ns[i].id = id
        THEN (CHOOSE i \in DOMAIN ns : ns[i].id = id) - 1
        ELSE -1

\* an applier that goes to the node now at the index the parent had in the tree
\* the changeset was generated against
applyAt_byIndex(rga, change, parentPath, k, event, s) ==
    IF k > Len(parentPath) THEN executeChange(rga, change, event, s)
    ELSE LET id == idAtIndex(rga, IndexOfId(base.children, parentPath[k]))
         IN  IF id = NoId \/ ~isRGAParent(MapGet(rga, id).value)
             THEN [rga |-> rga, s |-> s]
             ELSE LET node == MapGet(rga, id)
                      r == executeChange(node.value.children, change, event, s)
                  IN  [rga |-> MapSet(rga, [node EXCEPT !.value.children = r.rga]),
                       s |-> r.s]

\* walk parentPath by NodeId, execute in the reached RGA; a failed step skips
RECURSIVE applyAt(_, _, _, _, _, _)
applyAt(rga, change, parentPath, k, event, s) ==
    IF k > Len(parentPath) THEN executeChange(rga, change, event, s)
    ELSE IF ~MapHas(rga, parentPath[k]) THEN [rga |-> rga, s |-> s]
    ELSE LET node == MapGet(rga, parentPath[k])
         IN  IF ~isRGAParent(node.value) THEN [rga |-> rga, s |-> s]
             ELSE LET r == applyAt(node.value.children, change, parentPath,
                                   k + 1, event, s)
                  IN  [rga |-> MapSet(rga, [node EXCEPT !.value.children = r.rga]),
                       s |-> r.s]

RECURSIVE applyAllChanges(_, _, _, _, _)
applyAllChanges(rga, changes, k, event, s) ==
    IF k > Len(changes) THEN [rga |-> rga, s |-> s]
    ELSE LET r == applyAt(rga, changes[k], changes[k].parentPath, 1, event, s)
         IN  applyAllChanges(r.rga, changes, k + 1, event, r.s)

applyRGAChangeSet(tree, changeset, s) ==
    [type |-> "root",
     children |-> applyAllChanges(cloneRGA(tree.children), changeset.changes, 1,
                                  changeset.event, s).rga]

\* a merge of the two root RGAs only: a parent both sides hold keeps the
\* children RGA of the first side
mergeRGA_flat(a, b) == merge(a, b)

\* merge of corresponding RGAs: union of nodes, OR of tombstones, recursion into
\* the parents both sides hold; a parent of one side only comes with its subtree
RECURSIVE mergeRGA(_, _)
mergeRGA(a, b) ==
    LET m == merge(a, b)
    IN  [i \in DOMAIN m |->
            IF /\ MapHas(a, m[i].id) /\ MapHas(b, m[i].id)
               /\ isRGAParent(m[i].value)
               /\ isRGAParent(MapGet(b, m[i].id).value)
            THEN [m[i] EXCEPT !.value.children =
                                  mergeRGA(@, MapGet(b, m[i].id).value.children)]
            ELSE m[i]]

mergeRGATrees(a, b) == [type |-> "root", children |-> mergeRGA(a.children, b.children)]

\* ------------------- three-way merge (merge.ts) over the hash-id RGA
\* The RGA merge.ts is written against: an id is the digest of (replicaId,
\* afterId, fingerprint), so an id is modelled by the triple it is made of.
ROOT == <<>>

makeId(replicaId, afterId, valueFingerprint) ==
    <<replicaId, afterId, valueFingerprint>>

\* the hex digest as a number of DigestWidth bits; siblings are sorted by it
DigestWidth == 16

tokenCode(t) ==
    IF t = "x" THEN 1 ELSE IF t = "y" THEN 2 ELSE IF t = "***" THEN 3 ELSE 4

replicaCode(r) == IF r = "base" THEN 1 ELSE IF r = "A" THEN 2 ELSE 3

RECURSIVE fpCode(_, _)
fpCode(fp, k) ==
    IF k > Len(fp) THEN 0
    ELSE (tokenCode(fp[k]) + 5 * fpCode(fp, k + 1)) % (2 ^ DigestWidth)

RECURSIVE digest(_)
digest(id) ==
    IF id = ROOT THEN 7
    ELSE (31 * replicaCode(id[1]) + 17 * digest(id[2]) + fpCode(id[3], 1))
            % (2 ^ DigestWidth)

\* insert: idempotent on the id
insertHashed(m, afterId, value, replicaId) ==
    LET id == makeId(replicaId, afterId, fingerprint(value))
    IN  IF MapHas(m, id) THEN m
        ELSE Append(m, [id |-> id, value |-> value, afterId |-> afterId,
                        tombstone |-> FALSE])

\* list.sort((a, b) => a.id < b.id ? -1 : a.id > b.id ? 1 : 0), stable
RECURSIVE sortedInsertHashed(_, _, _)
sortedInsertHashed(list, x, i) ==
    IF i > Len(list) THEN Append(list, x)
    ELSE IF digest(x.id) < digest(list[i].id)
         THEN SubSeq(list, 1, i - 1) \o <<x>> \o SubSeq(list, i, Len(list))
         ELSE sortedInsertHashed(list, x, i + 1)

RECURSIVE sortHashedFrom(_, _, _)
sortHashedFrom(list, k, acc) ==
    IF k > Len(list) THEN acc
    ELSE sortHashedFrom(list, k + 1, sortedInsertHashed(acc, list[k], 1))

kidsOf(m, parentId) ==
    sortHashedFrom(SelectSeq(m, LAMBDA n : n.afterId = parentId), 1, <<>>)

\* allOrdered: the stack walk from ROOT; the kids of the popped id are pushed,
\* and added to the result, from the last to the first
RECURSIVE walkStack(_, _, _)
walkStack(m, stack, result) ==
    IF Len(stack) = 0 THEN result
    ELSE LET parentId == stack[Len(stack)]
             kids == kidsOf(m, parentId)
             pushed == [i \in DOMAIN kids |-> kids[Len(kids) + 1 - i]]
         IN  walkStack(m,
                       SubSeq(stack, 1, Len(stack) - 1)
                           \o [i \in DOMAIN pushed |-> pushed[i].id],
                       result \o pushed)

allOrderedHashed(m) == walkStack(m, <<ROOT>>, <<>>)

toNodesHashed(m) == SelectSeq(allOrderedHashed(m), LAMBDA n : ~n.tombstone)

toArrayHashed(m) ==
    LET ns == toNodesHashed(m) IN [i \in DOMAIN ns |-> ns[i].value]

\* merge: union of the nodes; tombstones win
RECURSIVE mergeHashedFrom(_, _, _)
mergeHashedFrom(this, other, k) ==
    IF k > Len(other) THEN this
    ELSE mergeHashedFrom(
           IF ~MapHas(this, other[k].id) THEN Append(this, other[k])
           ELSE IF other[k].tombstone THEN delete(this, other[k].id)
           ELSE this,
           other, k + 1)

mergeHashed(this, other) == mergeHashedFrom(this, other, 1)

RECURSIVE fromArrayHashedFrom(_, _, _, _, _)
fromArrayHashedFrom(its, replicaId, k, afterId, rga) ==
    IF k > Len(its) THEN rga
    ELSE LET id == makeId(replicaId, afterId, fingerprint(its[k]))
         IN  fromArrayHashedFrom(its, replicaId, k + 1, id,
                                 insertHashed(rga, afterId, its[k], replicaId))

fromArrayHashed(its, replicaId) == fromArrayHashedFrom(its, replicaId, 1, ROOT, <<>>)

\* applyEditsToRGA: the base nodes without a match are deleted
RECURSIVE deleteUnmatched(_, _, _, _)
deleteUnmatched(rga, baseNodes, unmatched, bi) ==
    IF bi >= Len(unmatched) THEN rga
    ELSE deleteUnmatched(
           IF unmatched[bi + 1] /\ bi < Len(baseNodes)
           THEN delete(rga, baseNodes[bi + 1].id) ELSE rga,
           baseNodes, unmatched, bi + 1)

\* the first live node of the Map whose value has the fingerprint, or ROOT
firstWithFingerprint(rga, fp) ==
    LET hits == SelectSeq(rga, LAMBDA n : ~n.tombstone /\ fingerprint(n.value) = fp)
    IN  IF Len(hits) = 0 THEN ROOT ELSE hits[1].id

\* applyEditsToRGA: the predecessor search, from target index prev downwards
RECURSIVE findAfterId(_, _, _, _, _)
findAfterId(rga, baseNodes, matches, targetChildren, prev) ==
    IF prev < 0 THEN ROOT
    ELSE LET hit == SelectSeq(matches, LAMBDA mt : mt[2] = prev)
         IN  IF Len(hit) > 0 /\ hit[1][1] < Len(baseNodes)
             THEN baseNodes[hit[1][1] + 1].id
             ELSE LET afterId == firstWithFingerprint(rga,
                                     fingerprint(targetChildren[prev + 1]))
                  IN  IF afterId # ROOT THEN afterId
                      ELSE findAfterId(rga, baseNodes, matches, targetChildren,
                                       prev - 1)

\* applyEditsToRGA: the target nodes without a match are inserted in order
RECURSIVE insertUnmatched(_, _, _, _, _, _)
insertUnmatched(rga, baseNodes, matches, targetChildren, replicaId, ti) ==
    IF ti >= Len(targetChildren) THEN rga
    ELSE insertUnmatched(
           IF \E k \in DOMAIN matches : matches[k][2] = ti THEN rga
           ELSE insertHashed(rga,
                    findAfterId(rga, baseNodes, matches, targetChildren, ti - 1),
                    targetChildren[ti + 1], replicaId),
           baseNodes, matches, targetChildren, replicaId, ti + 1)

applyEditsToRGA(baseChildren, targetChildren, rga, replicaId) ==
    LET baseFps == [i \in DOMAIN baseChildren |-> fingerprint(baseChildren[i])]
        targetFps == [i \in DOMAIN targetChildren |-> fingerprint(targetChildren[i])]
        matches == lcsMatchesFrom(baseFps, targetFps, lcsTable(baseFps, targetFps),
                                  Len(baseFps), Len(targetFps))
        baseNodes == toNodesHashed(rga)
        unmatched == [i \in DOMAIN baseChildren |->
                        ~\E k \in DOMAIN matches : matches[k][1] = i - 1]
    IN  insertUnmatched(deleteUnmatched(rga, baseNodes, unmatched, 0),
                        baseNodes, matches, targetChildren, replicaId, 0)

mergeChildren(baseChildren, aChildren, bChildren, replicaA, replicaB) ==
    LET baseRGA == fromArrayHashed(baseChildren, "base")
        rgaA == applyEditsToRGA(baseChildren, aChildren, baseRGA, replicaA)
        rgaB == applyEditsToRGA(baseChildren, bChildren, baseRGA, replicaB)
    IN  toArrayHashed(mergeHashed(rgaA, rgaB))

\* Array.prototype.find by fingerprint: the node, or <<>> for undefined
findByFingerprint(children, fp) ==
    LET hits == SelectSeq(children, LAMBDA c : fingerprint(c) = fp)
    IN  IF Len(hits) = 0 THEN <<>> ELSE <<hits[1]>>

\* deepMerge's mergeNode: the children of the merged node are replaced when a
\* side's children differ from the base node's
mergeNode(mergedNode, baseNode, aNode, bNode) ==
    IF ~hasChildren(mergedNode) \/ ~hasChildren(baseNode) THEN mergedNode
    ELSE LET aChildren == IF hasChildren(aNode) THEN aNode.children
                          ELSE baseNode.children
             bChildren == IF hasChildren(bNode) THEN bNode.children
                          ELSE baseNode.children
             fps(kids) == [i \in DOMAIN kids |-> fingerprint(kids[i])]
         IN  IF fps(aChildren) # fps(baseNode.children)
                \/ fps(bChildren) # fps(baseNode.children)
             THEN [mergedNode EXCEPT !.children =
                     mergeChildren(baseNode.children, aChildren, bChildren, "A", "B")]
             ELSE mergedNode

deepMerge(mergedRoot, baseRoot, sideA, sideB) ==
    [mergedRoot EXCEPT !.children = [i \in DOMAIN @ |->
        LET child == @[i]
            fp == fingerprint(child)
            baseChild == findByFingerprint(baseRoot.children, fp)
            aChild == findByFingerprint(sideA.children, fp)
            bChild == findByFingerprint(sideB.children, fp)
        IN  IF ~hasChildren(child) \/ Len(baseChild) = 0 THEN child
            ELSE mergeNode(child, baseChild[1],
                           IF Len(aChild) > 0 THEN aChild[1] ELSE baseChild[1],
                           IF Len(bChild) > 0 THEN bChild[1] ELSE baseChild[1])]]

\* threeWayMerge: tsA and tsB are parameters the body does not read
threeWayMerge(baseRoot, csA, csB, tsA, tsB) ==
    LET sideA == applyChangeSet(baseRoot, csA)
        sideB == applyChangeSet(baseRoot, csB)
        mergedChildren == mergeChildren(baseRoot.children, sideA.children,
                                        sideB.children, "A", "B")
    IN  deepMerge([type |-> "root", children |-> mergedChildren],
                  baseRoot, sideA, sideB)

\* ------------------------------ codec (crdt/codec.ts, codec.ts)
\* RGAEvent.toString and the caller's parseEvent.  The strictest parseEvent is
\* modelled: it raises on a string that no toString produces
eventToString(e) == <<"r", e>>

parseEvent(str) == str[2]

parses(str) == str[1] = "r"

\* `null` in a serialized value, and `undefined` read from a missing field
Null == [null |-> TRUE]

Undefined == [undefined |-> TRUE]

serializeNodeId(id) == [uuid |-> id.uuid, event |-> eventToString(id.event)]

deserializeNodeId(raw) == [uuid |-> raw.uuid, event |-> parseEvent(raw.event)]

\* an encoder that writes null for every optional id
serializeOptionalId_null(id) == Null

\* a decoder that restores no optional id
deserializeOptionalId_absent(rec, field) == NoId

\* node.afterId ? serializeNodeId(node.afterId) : null
serializeOptionalId(id) == IF id = NoId THEN Null ELSE serializeNodeId(id)

\* whether parseEvent raises for the id in a field, if there is one
optionalIdParses(rec, field) ==
    IF field \notin DOMAIN rec THEN TRUE
    ELSE IF rec[field] = Null THEN TRUE
    ELSE parses(rec[field].event)

\* raw ? deserializeNodeId(raw) : undefined, for a field that may be missing
deserializeOptionalId(rec, field) ==
    IF field \notin DOMAIN rec THEN NoId
    ELSE IF rec[field] = Null THEN NoId
    ELSE deserializeNodeId(rec[field])

RECURSIVE serializeRGA(_)
RECURSIVE serializeTreeNodeValue(_)
serializeTreeNodeValue(node) ==
    IF isRGAParent(node) THEN [node EXCEPT !.children = serializeRGA(@)]
    ELSE node

\* the nodes of the Map, in Map order, as a flat list
serializeRGA(rga) ==
    [nodes |-> [i \in DOMAIN rga |->
        [id |-> serializeNodeId(rga[i].id),
         value |-> serializeTreeNodeValue(rga[i].value),
         afterId |-> serializeOptionalId(rga[i].afterId),
         tombstone |-> rga[i].tombstone]]]

serializeTree(root) == [type |-> "root", children |-> serializeRGA(root.children)]

isRGAParentSerialized(raw) ==
    /\ "children" \in DOMAIN raw
    /\ "nodes" \in DOMAIN raw.children

\* the outcome of a decoding call: a value, or the TypeError it raised
Decoded(v) == [ok |-> TRUE, value |-> v]

DecodeError == [ok |-> FALSE, value |-> <<>>]

\* deserializeRGA: Map.set per raw node in list order.  Reading raw.nodes of a
\* raw RGA without nodes, or rawNode.id.uuid of a node without id, raises; a
\* missing afterId, value or tombstone is read as undefined and stored
RECURSIVE deserializeRGA(_)
RECURSIVE deserializeTreeNodeValue(_)
RECURSIVE deserializeFrom(_, _, _)
deserializeFrom(rawNodes, k, rga) ==
    IF k > Len(rawNodes) THEN Decoded(rga)
    ELSE LET rawNode == rawNodes[k]
         IN  IF "id" \notin DOMAIN rawNode THEN DecodeError
             ELSE IF ~parses(rawNode.id.event) THEN DecodeError
             ELSE IF ~optionalIdParses(rawNode, "afterId") THEN DecodeError
             ELSE LET value == IF "value" \in DOMAIN rawNode
                               THEN deserializeTreeNodeValue(rawNode.value)
                               ELSE Decoded(Undefined)
                  IN  IF ~value.ok THEN DecodeError
                      ELSE deserializeFrom(rawNodes, k + 1,
                             MapSet(rga,
                               [id |-> deserializeNodeId(rawNode.id),
                                value |-> value.value,
                                afterId |-> deserializeOptionalId(rawNode, "afterId"),
                                tombstone |-> IF "tombstone" \in DOMAIN rawNode
                                              THEN rawNode.tombstone
                                              ELSE Undefined]))

deserializeRGA(raw) ==
    IF "nodes" \notin DOMAIN raw THEN DecodeError
    ELSE deserializeFrom(raw.nodes, 1, <<>>)

deserializeTreeNodeValue(raw) ==
    IF isRGAParentSerialized(raw)
    THEN LET c == deserializeRGA(raw.children)
         IN  IF c.ok THEN Decoded([raw EXCEPT !.children = c.value]) ELSE DecodeError
    ELSE Decoded(raw)

deserializeTree(raw) ==
    IF "children" \notin DOMAIN raw THEN DecodeError
    ELSE LET c == deserializeRGA(raw.children)
         IN  IF c.ok THEN Decoded([type |-> "root", children |-> c.value])
             ELSE DecodeError

serializeChange(c) ==
    [type |-> c.type,
     parentPath |-> [i \in DOMAIN c.parentPath |-> serializeNodeId(c.parentPath[i])],
     targetId |-> serializeOptionalId(c.targetId),
     afterId |-> serializeOptionalId(c.afterId),
     nodes |-> c.nodes,
     before |-> c.before]

serializeChangeSet(changeset) ==
    [event |-> eventToString(changeset.event),
     changes |-> [i \in DOMAIN changeset.changes |->
                    serializeChange(changeset.changes[i])]]

\* c.parentPath.map(...) raises when parentPath is missing; the other fields
\* are set only when present
deserializeChange(c) ==
    IF "parentPath" \notin DOMAIN c THEN DecodeError
    ELSE IF \E i \in DOMAIN c.parentPath : ~parses(c.parentPath[i].event)
    THEN DecodeError
    ELSE IF ~optionalIdParses(c, "targetId") \/ ~optionalIdParses(c, "afterId")
    THEN DecodeError
    ELSE Decoded(
        [type |-> IF "type" \in DOMAIN c THEN c.type ELSE "undefined",
         parentPath |-> [i \in DOMAIN c.parentPath |->
                            deserializeNodeId(c.parentPath[i])],
         targetId |-> deserializeOptionalId(c, "targetId"),
         afterId |-> deserializeOptionalId(c, "afterId"),
         nodes |-> IF "nodes" \in DOMAIN c THEN c.nodes ELSE <<>>,
         before |-> IF "before" \in DOMAIN c THEN c.before ELSE <<>>])

\* parseEvent(raw.event) comes first and raises on a missing or malformed
\* event; raw.changes.map(...) raises when changes is missing
deserializeChangeSet(raw) ==
    IF "event" \notin DOMAIN raw THEN DecodeError
    ELSE IF ~parses(raw.event) THEN DecodeError
    ELSE IF "changes" \notin DOMAIN raw THEN DecodeError
    ELSE IF \E i \in DOMAIN raw.changes : ~deserializeChange(raw.changes[i]).ok
    THEN DecodeError
    ELSE Decoded(
        [event |-> parseEvent(raw.event),
         changes |-> [i \in DOMAIN raw.changes |->
                        deserializeChange(raw.changes[i]).value],
         threw |-> FALSE])

\* ------------------------------------------------------------- helpers
NodeSet(m) == {m[i] : i \in DOMAIN m}

IdSet(m) == {m[i].id : i \in DOMAIN m}

\* the documents: up to MaxBlocks blocks, a block a thematic break or a
\* paragraph of up to MaxInline texts
Texts == {"x", "y"}

SeqsUpTo(S, lo, hi) == UNION {[1..n -> S] : n \in lo..hi}

Blocks ==
    {Paragraph(k) : k \in SeqsUpTo({Text(v) : v \in Texts}, 1, MaxInline)}
        \cup {ThematicBreak}

Docs == {Root(b) : b \in SeqsUpTo(Blocks, 0, MaxBlocks)}

\* the supplies operation number k may get: its uuids fall above or below every
\* uuid minted by the operations before it, and go up or down
Supplies(k) ==
    {[next |-> k * UuidSlot + 1, step |-> 1],
     [next |-> k * UuidSlot + UuidSlot - 1, step |-> -1],
     [next |-> 0 - (k * UuidSlot + UuidSlot - 1), step |-> 1],
     [next |-> 0 - (k * UuidSlot + 1), step |-> -1]}

\* those of them that go up
UpSupplies(k) == {s \in Supplies(k) : s.step = 1}

\* the documents the changesets are generated from: paragraphs only
CSDocs == {d \in Docs : \A i \in DOMAIN d.children : d.children[i].type = "paragraph"}

BaseSupply == [next |-> 1, step |-> 1]

NoTree == [type |-> "none", children |-> <<>>]

NoEdit == [doc |-> Root(<<>>), event |-> 0]

NoChangeSet == [event |-> 0, changes |-> <<>>, threw |-> TRUE]

RGAIdle == nodes = <<>> /\ used = {} /\ ndel = 0 /\ fromItems = <<>>

TreeIdle == edit = NoEdit /\ out = <<>>

CSIdle == cs = <<>> /\ repl = <<>> /\ applied = <<>> /\ merged = NoTree

HeapIdle == heap = <<>> /\ hin = 0 /\ houts = <<>> /\ nedit = 0

NoCall == [step |-> 0]

CallIdle == args = NoCall /\ ret = NoCall

\* ------------------------------------------------- replicas of one RGA
Init ==
    \E e \in Events :
        /\ nodes = [r \in Replicas |-> fromArray(BaseItems, e, BaseUuids)]
        /\ used = {BaseUuids[i] : i \in DOMAIN BaseUuids}
        /\ ndel = 0
        /\ fromItems = BaseItems
        /\ base = NoTree /\ TreeIdle /\ CSIdle /\ HeapIdle /\ CallIdle

Insert(r, afterId, value, event, uuid) ==
    /\ uuid \notin used
    /\ afterId \in IdSet(nodes[r]) \cup {NoId}
    /\ nodes' = [nodes EXCEPT ![r] = insert(@, afterId, value, event, uuid)]
    /\ used' = used \cup {uuid}
    /\ UNCHANGED <<ndel, fromItems, treeVars, csVars, heapVars, callVars>>

Delete(r, id) ==
    /\ ndel < MaxDeletes
    /\ nodes' = [nodes EXCEPT ![r] = delete(@, id)]
    /\ ndel' = ndel + 1
    /\ UNCHANGED <<used, fromItems, treeVars, csVars, heapVars, callVars>>

Merge(r, s) ==
    /\ r # s
    /\ nodes' = [nodes EXCEPT ![r] = merge(@, nodes[s])]
    /\ UNCHANGED <<used, ndel, fromItems, treeVars, csVars, heapVars, callVars>>

Next ==
    \/ \E r \in Editors, e \in Events, u \in Uuids :
         \E a \in IdSet(nodes[r]) \cup {NoId} : Insert(r, a, InsertValue(r), e, u)
    \/ \E r \in Editors : \E id \in UNION {IdSet(nodes[s]) : s \in Replicas} :
         Delete(r, id)
    \/ \E r, s \in Replicas : Merge(r, s)

Spec == Init /\ [][Next]_vars

\* ------------------------- two replicas of an RGA built from any list of items
ItemValues == {"a", "b", "c"}

SeqReplicas == {1, 2}

\* the uuids fromArray may have minted, going up or down: fresh uuids fall
\* below and above them
SeqBaseUuids(its) ==
    {[i \in DOMAIN its |-> i + 1], [i \in DOMAIN its |-> Len(its) + 2 - i]}

SeqFreshUuids == {1, MaxItems + 2}

SeqInit ==
    \E its \in SeqsUpTo(ItemValues, 0, MaxItems), e \in Events :
        /\ fromItems = its
        /\ \E us \in SeqBaseUuids(its) :
              nodes = [r \in SeqReplicas |-> fromArray(its, e, us)]
        /\ used = {i + 1 : i \in DOMAIN its}
        /\ ndel = 0
        /\ base = NoTree /\ TreeIdle /\ CSIdle /\ HeapIdle /\ CallIdle

\* replica 1 deletes, replica 2 inserts "x", either merges the other
SeqNext ==
    \/ \E e \in Events, u \in SeqFreshUuids :
         \E a \in IdSet(nodes[2]) \cup {NoId} :
            /\ Cardinality(used) - Len(fromItems) < MaxInserts
            /\ Insert(2, a, "x", e, u)
    \/ \E id \in IdSet(nodes[1]) : Delete(1, id)
    \/ \E r, s \in SeqReplicas : Merge(r, s)

SpecSeq == SeqInit /\ [][SeqNext]_vars

\* ------------------------------------- two applications of one edit to a tree
Appliers == 1..2

TreeInit ==
    \E d \in Docs, e \in Events :
        /\ base = toRGATree(d, e, BaseSupply)
        /\ edit = NoEdit
        /\ out = [r \in Appliers |-> NoTree]
        /\ RGAIdle /\ CSIdle /\ HeapIdle /\ CallIdle

\* applier r runs applyMdast on the tree with the edit's document and event
ApplyMdast(r, newRoot, event, s) ==
    /\ out[r] = NoTree
    /\ edit \in {NoEdit, [doc |-> newRoot, event |-> event]}
    /\ out' = [out EXCEPT ![r] = applyMdast(base, newRoot, event, s)]
    /\ edit' = [doc |-> newRoot, event |-> event]
    /\ UNCHANGED <<base, rgaVars, csVars, heapVars, callVars>>

TreeNext ==
    \E r \in Appliers, d \in Docs, e \in Events : \E s \in Supplies(r) :
        ApplyMdast(r, d, e, s)

SpecTree == TreeInit /\ [][TreeNext]_vars

\* ------------------- one edit whose document is longer than the tree's
MaxNewBlocks == 4

NewDocs == {Root(b) : b \in SeqsUpTo(Blocks, 0, MaxNewBlocks)}

LongNext ==
    \E d \in NewDocs, e \in Events : \E s \in Supplies(1) :
        ApplyMdast(1, d, e, s)

SpecLong == TreeInit /\ [][LongNext]_vars

\* every id of an RGA and of the RGAs nested in its values, tombstones included
RECURSIVE AllIds(_)
AllIds(rga) ==
    UNION {{rga[i].id} \cup (IF isRGAParent(rga[i].value)
                             THEN AllIds(rga[i].value.children)
                             ELSE {}) : i \in DOMAIN rga}

\* the (old index, new index) pairs diffChildren leaves alone
Matches(old, new) ==
    LET a == [i \in DOMAIN old |-> fpChild(old[i])]
        b == [i \in DOMAIN new |-> fpChild(new[i])]
    IN lcsMatches(a, b, lcsTable(a, b))

\* --------------------------- changesets exchanged between two replicas
CSNames == {"A", "B"}

CSReplicas == 1..2

ApplyOrder(r) == IF r = 1 THEN <<"A", "B">> ELSE <<"B", "A">>

\* the number of the next operation of replica r
OpNumber(r) == 2 * (r - 1) + Len(applied[r]) + 1

CSInit ==
    \E d \in CSDocs, e \in Events :
        /\ base = toRGATree(d, e, BaseSupply)
        /\ cs = [k \in CSNames |-> NoChangeSet]
        /\ repl = [r \in CSReplicas |-> base]
        /\ applied = [r \in CSReplicas |-> <<>>]
        /\ merged = NoTree
        /\ RGAIdle /\ TreeIdle /\ HeapIdle /\ CallIdle

\* changeset k is generated against the tree; nothing is produced when it throws
GenerateRGAChangeSet(k, newRoot, event) ==
    /\ cs[k] = NoChangeSet
    /\ ~generateRGAChangeSet(base, newRoot, event).threw
    /\ cs' = [cs EXCEPT ![k] = generateRGAChangeSet(base, newRoot, event)]
    /\ UNCHANGED <<base, repl, applied, merged, rgaVars, edit, out, heapVars, callVars>>

\* replica r applies its next changeset: replica 1 applies A then B, replica 2
\* B then A
ApplyRGAChangeSet(r, k, s) ==
    /\ cs[k] # NoChangeSet
    /\ Len(applied[r]) < Len(ApplyOrder(r))
    /\ k = ApplyOrder(r)[Len(applied[r]) + 1]
    /\ repl' = [repl EXCEPT ![r] = applyRGAChangeSet(@, cs[k], s)]
    /\ applied' = [applied EXCEPT ![r] = Append(@, k)]
    /\ UNCHANGED <<base, cs, merged, rgaVars, edit, out, heapVars, callVars>>

\* the two replicas' trees are merged when each has applied one changeset
MergeRGATrees ==
    /\ merged = NoTree
    /\ applied[1] = <<"A">> /\ applied[2] = <<"B">>
    /\ merged' = mergeRGATrees(repl[1], repl[2])
    /\ UNCHANGED <<base, cs, repl, applied, rgaVars, edit, out, heapVars, callVars>>

CSNext ==
    \/ \E k \in CSNames, d \in CSDocs, e \in Events : GenerateRGAChangeSet(k, d, e)
    \/ \E r \in CSReplicas, k \in CSNames : \E s \in UpSupplies(OpNumber(r)) :
         ApplyRGAChangeSet(r, k, s)
    \/ MergeRGATrees

SpecCS == CSInit /\ [][CSNext]_vars

\* ------------------- a changeset applied where an earlier one is missing
\* A is generated against the tree and applied at replica 1; B is generated
\* against replica 1's tree; replica 2 applies B without having applied A
GenerateLater(newRoot, event) ==
    /\ cs["B"] = NoChangeSet
    /\ applied[1] = <<"A">>
    /\ ~generateRGAChangeSet(repl[1], newRoot, event).threw
    /\ cs' = [cs EXCEPT !["B"] = generateRGAChangeSet(repl[1], newRoot, event)]
    /\ UNCHANGED <<base, repl, applied, merged, rgaVars, edit, out, heapVars, callVars>>

StaleNext ==
    \/ \E d \in CSDocs, e \in Events : GenerateRGAChangeSet("A", d, e)
    \/ \E s \in UpSupplies(OpNumber(1)) : ApplyRGAChangeSet(1, "A", s)
    \/ \E d \in CSDocs, e \in Events : GenerateLater(d, e)
    \/ \E s \in UpSupplies(OpNumber(2)) : ApplyRGAChangeSet(2, "B", s)

SpecStale == CSInit /\ [][StaleNext]_vars

\* ------------------------------ conversion of a document and back
\* nodes with attributes besides type and children, as remark-parse makes them
Heading(depth, kids) == [type |-> "heading", depth |-> depth, children |-> kids]

Link(url, kids) == [type |-> "link", url |-> url, children |-> kids]

ListItem(kids) == [type |-> "listItem", spread |-> FALSE, children |-> kids]

List(ordered, kids) ==
    [type |-> "list", ordered |-> ordered, spread |-> FALSE, children |-> kids]

\* the root parser.parse returns: it has a position besides type and children
ParsedRoot(kids, offset) ==
    [type |-> "root", children |-> kids,
     position |-> [start |-> 0, end |-> offset]]

MaxDepth == 2

ConvBlocks ==
    Blocks
        \cup {Heading(d, <<Text("x")>>) : d \in 1..MaxDepth}
        \cup {Paragraph(<<Link(u, <<Text("x")>>)>>) : u \in {"u", "v"}}
        \cup {List(o, <<ListItem(<<Paragraph(<<Text("x")>>)>>)>>) : o \in BOOLEAN}

ConvDocs ==
    {Root(b) : b \in SeqsUpTo(ConvBlocks, 0, MaxBlocks)}
        \cup {ParsedRoot(b, Len(b)) : b \in SeqsUpTo(ConvBlocks, 0, MaxBlocks)}

ConvInit ==
    \E d \in ConvDocs, e \in Events :
        /\ edit = [doc |-> d, event |-> e]
        /\ base = NoTree
        /\ out = <<>>
        /\ RGAIdle /\ CSIdle /\ HeapIdle /\ CallIdle

ToRGATree(s) ==
    /\ base = NoTree
    /\ base' = toRGATree(edit.doc, edit.event, s)
    /\ UNCHANGED <<edit, out, rgaVars, csVars, heapVars, callVars>>

ToMdast ==
    /\ base # NoTree
    /\ out = <<>>
    /\ out' = <<toMdast(base)>>
    /\ UNCHANGED <<base, edit, rgaVars, csVars, heapVars, callVars>>

ConvNext ==
    \/ \E s \in Supplies(0) : ToRGATree(s)
    \/ ToMdast

SpecConv == ConvInit /\ [][ConvNext]_vars

\* ------------------------------- the index-based diff and its application
DiffInit ==
    \E a \in Docs, b \in Docs :
        /\ args = [step |-> 0, a |-> a, b |-> b]
        /\ ret = NoCall
        /\ base = NoTree
        /\ RGAIdle /\ TreeIdle /\ CSIdle /\ HeapIdle

\* cs = diff(a, b)
Diff ==
    /\ ret.step = 0
    /\ ret' = [step |-> 1, changes |-> diff(args.a, args.b)]
    /\ UNCHANGED <<args, base, rgaVars, treeVars, csVars, heapVars>>

\* applied = applyChangeSet(a, cs)
ApplyChangeSet ==
    /\ ret.step = 1
    /\ ret' = [step |-> 2, changes |-> ret.changes,
               root |-> applyChangeSet(args.a, ret.changes)]
    /\ UNCHANGED <<args, base, rgaVars, treeVars, csVars, heapVars>>

DiffNext == Diff \/ ApplyChangeSet

SpecDiff == DiffInit /\ [][DiffNext]_vars

\* ------------------------------- trees and changesets through the codec
\* encodeTree / encodeChangeSet: the serialized value in a DAG-CBOR block
encodeTree(root) == [bytes |-> serializeTree(root)]

decodeTree(block) == deserializeTree(block.bytes)

encodeChangeSet(changeset) == [bytes |-> serializeChangeSet(changeset)]

decodeChangeSet(block) == deserializeChangeSet(block.bytes)

Reverse(list) == [i \in DOMAIN list |-> list[Len(list) + 1 - i]]

\* the same serialized RGA with its flat node list the other way round, at
\* every depth
RECURSIVE reverseNodes(_)
reverseNodes(raw) ==
    [nodes |-> Reverse([i \in DOMAIN raw.nodes |->
        IF isRGAParentSerialized(raw.nodes[i].value)
        THEN [raw.nodes[i] EXCEPT !.value.children = reverseNodes(@)]
        ELSE raw.nodes[i]])]

reverseTree(block) == [bytes |-> [block.bytes EXCEPT !.children = reverseNodes(@)]]

DropField(rec, f) == [k \in DOMAIN rec \ {f} |-> rec[k]]

\* an event string no toString produced
Malformed == <<"", 0>>

TreeDamages == {"children", "nodes", "id", "tombstone", "afterId", "value", "event"}

\* a serialized tree with a field missing, or with a malformed event string
damageTree(block, kind) ==
    [bytes |->
        IF kind = "children" THEN DropField(block.bytes, "children")
        ELSE IF kind = "nodes"
        THEN [block.bytes EXCEPT !.children = DropField(@, "nodes")]
        ELSE IF kind = "event"
        THEN [block.bytes EXCEPT !.children.nodes[1].id.event = Malformed]
        ELSE [block.bytes EXCEPT !.children.nodes[1] = DropField(@, kind)]]

ChangeSetDamages == {"changes", "event", "parentPath", "type", "malformed"}

damageChangeSet(block, kind) ==
    [bytes |->
        IF kind \in {"changes", "event"} THEN DropField(block.bytes, kind)
        ELSE IF kind = "malformed" THEN [block.bytes EXCEPT !.event = Malformed]
        ELSE [block.bytes EXCEPT !.changes[1] = DropField(@, kind)]]

EditSupply == [next |-> UuidSlot, step |-> 1]

ApplySupply == [next |-> 2 * UuidSlot, step |-> 1]

\* a tree that has been edited once, so that it holds tombstones and nodes of
\* two events, and a changeset generated against it
CodecInit ==
    \E d \in Docs, d2 \in CSDocs, d3 \in CSDocs :
        /\ base = applyMdast(toRGATree(d, 1, BaseSupply), d2, 2, EditSupply)
        /\ args = [step |-> 0, changeset |-> generateRGAChangeSet(base, d3, 2)]
        /\ ret = NoCall
        /\ RGAIdle /\ TreeIdle /\ CSIdle /\ HeapIdle

EncodeTree ==
    /\ ret.step = 0
    /\ ret' = [step |-> 1, kind |-> "tree", damage |-> "none",
               block |-> encodeTree(base)]
    /\ UNCHANGED <<args, base, rgaVars, treeVars, csVars, heapVars>>

EncodeChangeSet ==
    /\ ret.step = 0
    /\ ~args.changeset.threw
    /\ ret' = [step |-> 1, kind |-> "changeset", damage |-> "none",
               block |-> encodeChangeSet(args.changeset)]
    /\ UNCHANGED <<args, base, rgaVars, treeVars, csVars, heapVars>>

\* the block reaches the decoder with its node lists in the other order
ReorderTree ==
    /\ ret.step = 1 /\ ret.kind = "tree" /\ ret.damage = "none"
    /\ ret' = [ret EXCEPT !.damage = "reordered", !.block = reverseTree(@)]
    /\ UNCHANGED <<args, base, rgaVars, treeVars, csVars, heapVars>>

\* the block reaches the decoder with a field missing
DamageTree(kind) ==
    /\ ret.step = 1 /\ ret.kind = "tree" /\ ret.damage = "none"
    /\ kind \in {"children", "nodes"} \/ Len(ret.block.bytes.children.nodes) > 0
    /\ ret' = [ret EXCEPT !.damage = kind, !.block = damageTree(@, kind)]
    /\ UNCHANGED <<args, base, rgaVars, treeVars, csVars, heapVars>>

DamageChangeSet(kind) ==
    /\ ret.step = 1 /\ ret.kind = "changeset" /\ ret.damage = "none"
    /\ kind \in {"changes", "event", "malformed"} \/ Len(ret.block.bytes.changes) > 0
    /\ ret' = [ret EXCEPT !.damage = kind, !.block = damageChangeSet(@, kind)]
    /\ UNCHANGED <<args, base, rgaVars, treeVars, csVars, heapVars>>

DecodeTree ==
    /\ ret.step = 1 /\ ret.kind = "tree"
    /\ ret' = [step |-> 2, kind |-> ret.kind, damage |-> ret.damage,
               block |-> ret.block, decoded |-> decodeTree(ret.block)]
    /\ UNCHANGED <<args, base, rgaVars, treeVars, csVars, heapVars>>

DecodeChangeSet ==
    /\ ret.step = 1 /\ ret.kind = "changeset"
    /\ ret' = [step |-> 2, kind |-> ret.kind, damage |-> ret.damage,
               block |-> ret.block, decoded |-> decodeChangeSet(ret.block)]
    /\ UNCHANGED <<args, base, rgaVars, treeVars, csVars, heapVars>>

\* the tree after the decoded changeset, next to the tree after the original
ApplyDecoded ==
    /\ ret.step = 2 /\ ret.kind = "changeset" /\ ret.damage = "none"
    /\ ret.decoded.ok
    /\ ret' = [step |-> 3, kind |-> ret.kind, damage |-> ret.damage,
               block |-> ret.block, decoded |-> ret.decoded,
               viaDecoded |-> applyRGAChangeSet(base, ret.decoded.value, ApplySupply),
               viaOriginal |-> applyRGAChangeSet(base, args.changeset, ApplySupply)]
    /\ UNCHANGED <<args, base, rgaVars, treeVars, csVars, heapVars>>

CodecNext ==
    \/ EncodeTree
    \/ EncodeChangeSet
    \/ ReorderTree
    \/ \E kind \in TreeDamages : DamageTree(kind)
    \/ \E kind \in ChangeSetDamages : DamageChangeSet(kind)
    \/ DecodeTree
    \/ DecodeChangeSet
    \/ ApplyDecoded

SpecCodec == CodecInit /\ [][CodecNext]_vars

\* ------------------------------- two edits of a document merged three-way
Timestamps == 1..2

MergeInit ==
    \E b \in Docs, a1 \in Docs, b1 \in Docs, tsA \in Timestamps, tsB \in Timestamps :
        /\ tsA # tsB
        /\ args = [step |-> 0, base |-> b, alice |-> a1, bob |-> b1,
                   tsA |-> tsA, tsB |-> tsB]
        /\ ret = NoCall
        /\ base = NoTree
        /\ RGAIdle /\ TreeIdle /\ CSIdle /\ HeapIdle

\* csA = diff(base, alice), csB = diff(base, bob)
DiffSides ==
    /\ ret.step = 0
    /\ ret' = [step |-> 1, csA |-> diff(args.base, args.alice),
               csB |-> diff(args.base, args.bob)]
    /\ UNCHANGED <<args, base, rgaVars, treeVars, csVars, heapVars>>

ThreeWayMerge ==
    /\ ret.step = 1
    /\ ret' = [step |-> 2, csA |-> ret.csA, csB |-> ret.csB,
               merged |-> threeWayMerge(args.base, ret.csA, ret.csB,
                                        args.tsA, args.tsB)]
    /\ UNCHANGED <<args, base, rgaVars, treeVars, csVars, heapVars>>

MergeNext == DiffSides \/ ThreeWayMerge

SpecMerge == MergeInit /\ [][MergeNext]_vars

\* ----------------- one edit applied directly and as a changeset
\* the tree is a converted document that has been edited once
EquivInit ==
    \E d \in Docs, d2 \in Docs, newRoot \in Docs, e \in Events :
        /\ base = applyMdast(toRGATree(d, 1, BaseSupply), d2, 1, EditSupply)
        /\ args = [step |-> 0, newRoot |-> newRoot, event |-> e]
        /\ ret = NoCall
        /\ RGAIdle /\ TreeIdle /\ CSIdle /\ HeapIdle

ApplyMdastToRGATree ==
    /\ ret.step = 0
    /\ ret' = [step |-> 1,
               direct |-> applyMdast(base, args.newRoot, args.event, ApplySupply)]
    /\ UNCHANGED <<args, base, rgaVars, treeVars, csVars, heapVars>>

\* generateRGAChangeSet, then applyRGAChangeSet unless the former threw
GenerateAndApply ==
    /\ ret.step = 1
    /\ LET changeset == generateRGAChangeSet(base, args.newRoot, args.event)
       IN  ret' = [step |-> 2, direct |-> ret.direct, threw |-> changeset.threw,
                   via |-> IF changeset.threw THEN NoTree
                           ELSE applyRGAChangeSet(base, changeset, ApplySupply)]
    /\ UNCHANGED <<args, base, rgaVars, treeVars, csVars, heapVars>>

EquivNext == ApplyMdastToRGATree \/ GenerateAndApply

SpecEquiv == EquivInit /\ [][EquivNext]_vars

\* ------------------------------- trees as objects: what a call may share
\* An RGA object is a Map of node objects; a parent's value refers to its
\* children RGA by address.  A tree is the address of its root's children RGA.
MaxReturned == 2

MaxHeapEdits == 1

\* the tree an address stands for, nested RGAs read through their addresses
RECURSIVE Load(_, _)
Load(h, a) ==
    [i \in DOMAIN h[a] |->
        IF isRGAParent(h[a][i].value)
        THEN [h[a][i] EXCEPT !.value.children = Load(h, @)]
        ELSE h[a][i]]

\* the addresses of the RGA objects of the tree at address a
RECURSIVE Reachable(_, _)
Reachable(h, a) ==
    {a} \cup UNION {IF isRGAParent(h[a][i].value)
                    THEN Reachable(h, h[a][i].value.children)
                    ELSE {} : i \in DOMAIN h[a]}

\* new RGA(...) for the nodes of rga from the i-th on, nested RGAs first
RECURSIVE allocRGA(_, _)
RECURSIVE allocFrom(_, _, _, _)
allocFrom(h, rga, i, acc) ==
    IF i > Len(rga) THEN [heap |-> h, nodes |-> acc]
    ELSE IF isRGAParent(rga[i].value)
         THEN LET c == allocRGA(h, rga[i].value.children)
              IN  allocFrom(c.heap, rga, i + 1,
                            Append(acc, [rga[i] EXCEPT !.value.children = c.addr]))
         ELSE allocFrom(h, rga, i + 1, Append(acc, rga[i]))

allocRGA(h, rga) ==
    LET r == allocFrom(h, rga, 1, <<>>)
    IN  [heap |-> Append(r.heap, r.nodes), addr |-> Len(r.heap) + 1]

\* a clone that copies the Map and its node objects but keeps the values, so
\* that a nested RGA is the same object in the clone as in the original
heapCloneRGA_shallow(h, a) == [heap |-> Append(h, h[a]), addr |-> Len(h) + 1]

\* cloneRGA on objects: a new RGA, a new node object per node, and for a parent
\* a new value whose children is the clone of the nested RGA
RECURSIVE heapCloneRGA(_, _)
RECURSIVE heapCloneFrom(_, _, _, _)
heapCloneFrom(h, a, i, acc) ==
    IF i > Len(h[a]) THEN [heap |-> h, nodes |-> acc]
    ELSE IF isRGAParent(h[a][i].value)
         THEN LET c == heapCloneRGA(h, h[a][i].value.children)
              IN  heapCloneFrom(c.heap, a, i + 1,
                                Append(acc, [h[a][i] EXCEPT !.value.children = c.addr]))
         ELSE heapCloneFrom(h, a, i + 1, Append(acc, h[a][i]))

heapCloneRGA(h, a) ==
    LET r == heapCloneFrom(h, a, 1, <<>>)
    IN  [heap |-> Append(r.heap, r.nodes), addr |-> Len(r.heap) + 1]

\* the mutations applyChangesAtDepth made, done to the objects they were made
\* through: rga is the RGA at address a after the changes.  delete set the flag
\* of a node object, insert added a node to the Map (with new RGAs for a new
\* parent's children), and a deeper change went through node.value.children
RECURSIVE mutateFrom(_, _, _, _)
mutateFrom(h, a, rga, i) ==
    IF i > Len(rga) THEN h
    ELSE IF i <= Len(h[a])
         THEN LET h1 == IF isRGAParent(h[a][i].value)
                        THEN mutateFrom(h, h[a][i].value.children,
                                        rga[i].value.children, 1)
                        ELSE h
              IN  mutateFrom([h1 EXCEPT ![a][i].tombstone = rga[i].tombstone],
                             a, rga, i + 1)
         ELSE IF isRGAParent(rga[i].value)
              THEN LET c == allocRGA(h, rga[i].value.children)
                   IN  mutateFrom([c.heap EXCEPT ![a] =
                                       Append(@, [rga[i] EXCEPT !.value.children = c.addr])],
                                  a, rga, i + 1)
              ELSE mutateFrom([h EXCEPT ![a] = Append(@, rga[i])], a, rga, i + 1)

\* applyMdast on objects: the diff against the existing tree, a clone of it,
\* and the changes applied to the clone in place
heapApplyMdast(h, a, newRoot, event, s) ==
    LET existing == [type |-> "root", children |-> Load(h, a)]
        changeset == diff(toMdast(existing), newRoot)
        c == heapCloneRGA(h, a)
        updated == applyChangesAtDepth(Load(c.heap, c.addr), changeset, <<>>,
                                       event, s).rga
    IN  [heap |-> mutateFrom(c.heap, c.addr, updated, 1), addr |-> c.addr]

\* mergeRGATrees on objects: the merged tree is built of new objects only
heapMergeRGATrees(h, a, b) == allocRGA(h, mergeRGA(Load(h, a), Load(h, b)))

HeapInit ==
    \E d \in Docs, e \in Events :
        LET t == allocRGA(<<>>, toRGATree(d, e, BaseSupply).children)
        IN  /\ heap = t.heap
            /\ hin = t.addr
            /\ houts = <<>>
            /\ nedit = 0
            /\ base = toRGATree(d, e, BaseSupply)
            /\ RGAIdle /\ TreeIdle /\ CSIdle /\ CallIdle

\* a call of applyMdast on the input tree; the caller keeps the returned root
HeapApplyMdast(newRoot, event, s) ==
    /\ Len(houts) < MaxReturned
    /\ LET r == heapApplyMdast(heap, hin, newRoot, event, s)
       IN  heap' = r.heap /\ houts' = Append(houts, r.addr)
    /\ UNCHANGED <<hin, nedit, rgaVars, treeVars, csVars, callVars>>

\* a call of mergeRGATrees on the input tree and a returned tree, either way round
HeapMergeRGATrees(k, inputFirst) ==
    /\ Len(houts) < MaxReturned
    /\ LET r == IF inputFirst THEN heapMergeRGATrees(heap, hin, houts[k])
                ELSE heapMergeRGATrees(heap, houts[k], hin)
       IN  heap' = r.heap /\ houts' = Append(houts, r.addr)
    /\ UNCHANGED <<hin, nedit, rgaVars, treeVars, csVars, callVars>>

\* a later edit to a returned tree: RGA.delete on one of its RGAs
HeapDelete(a, id) ==
    /\ nedit < MaxHeapEdits
    /\ heap' = [heap EXCEPT ![a] = delete(@, id)]
    /\ nedit' = nedit + 1
    /\ UNCHANGED <<hin, houts, rgaVars, treeVars, csVars, callVars>>

\* a later edit to a returned tree: RGA.insert of a leaf into one of its RGAs
HeapInsert(a, afterId, event) ==
    /\ nedit < MaxHeapEdits
    /\ heap' = [heap EXCEPT ![a] = insert(@, afterId, Text("x"), event,
                                          (MaxReturned + 2) * UuidSlot + nedit)]
    /\ nedit' = nedit + 1
    /\ UNCHANGED <<hin, houts, rgaVars, treeVars, csVars, callVars>>

HeapNext ==
    \/ \E d \in Docs, e \in Events :
            HeapApplyMdast(d, e, [next |-> (Len(houts) + 1) * UuidSlot, step |-> 1])
    \/ \E k \in DOMAIN houts, f \in BOOLEAN : HeapMergeRGATrees(k, f)
    \/ \E k \in DOMAIN houts : \E a \in Reachable(heap, houts[k]) :
            \E id \in IdSet(heap[a]) : HeapDelete(a, id)
    \/ \E k \in DOMAIN houts : \E a \in Reachable(heap, houts[k]) :
            \E id \in IdSet(heap[a]) \cup {NoId}, e \in Events : HeapInsert(a, id, e)

SpecHeap == HeapInit /\ [][HeapNext]_vars


\* ------------------------------------------------------------ claims: RGA
\* two Maps hold the same entries: same size, same node records
SameState(x, y) == Len(x) = Len(y) /\ NodeSet(x) = NodeSet(y)

\* C1 (convergence): whenever two replicas hold the same node set (same ids,
\* afterIds, tombstone flags), their toArray() results are equal, whatever the
\* order in which the nodes entered each replica's Map.
C1_Convergence ==
    \A r, s \in Replicas :
        NodeSet(nodes[r]) = NodeSet(nodes[s]) => toArray(nodes[r]) = toArray(nodes[s])

\* two replicas with the same node set that hold two live siblings in opposite Map order
C1_Witness ==
    \E r, s \in Replicas :
        /\ NodeSet(nodes[r]) = NodeSet(nodes[s])
        /\ \E i, j \in DOMAIN nodes[r] : \E k, l \in DOMAIN nodes[s] :
              /\ i < j /\ l < k
              /\ nodes[r][i] = nodes[s][k] /\ nodes[r][j] = nodes[s][l]
              /\ nodes[r][i].afterId = nodes[r][j].afterId
              /\ ~nodes[r][i].tombstone /\ ~nodes[r][j].tombstone

\* C2 (commutativity): merging b into a copy of a and a into a copy of b give
\* the same visible sequence.
C2_MergeCommutes ==
    \A r, s \in Replicas :
        toArray(merge(nodes[r], nodes[s])) = toArray(merge(nodes[s], nodes[r]))

\* each side holds a node the other lacks, and one holds a tombstone the other lacks
C2_Witness ==
    \E r, s \in Replicas :
        /\ IdSet(nodes[r]) \ IdSet(nodes[s]) # {}
        /\ IdSet(nodes[s]) \ IdSet(nodes[r]) # {}
        /\ \E i \in DOMAIN nodes[r] : \E j \in DOMAIN nodes[s] :
              /\ nodes[r][i].id = nodes[s][j].id
              /\ nodes[r][i].tombstone /\ ~nodes[s][j].tombstone

\* C3 (idempotence): merging a state the RGA already contains (itself, or the
\* same peer a second time) leaves node set, tombstone flags and visible
\* sequence unchanged.
C3_MergeIdempotent ==
    \A r, s \in Replicas :
        LET once == merge(nodes[r], nodes[s])
            twice == merge(once, nodes[s])
            self == merge(nodes[r], nodes[r])
        IN  /\ SameState(twice, once) /\ toArray(twice) = toArray(once)
            /\ SameState(self, nodes[r]) /\ toArray(self) = toArray(nodes[r])

\* the first merge of the peer changes the replica: a new node and a new tombstone
C3_Witness ==
    \E r, s \in Replicas :
        /\ IdSet(nodes[s]) \ IdSet(nodes[r]) # {}
        /\ \E i \in DOMAIN nodes[r] : \E j \in DOMAIN nodes[s] :
              /\ nodes[r][i].id = nodes[s][j].id
              /\ ~nodes[r][i].tombstone /\ nodes[s][j].tombstone

\* C4 (associativity): for the states a, b, c of three replicas, in any
\* assignment, merging c into (a merged with b) and merging (b merged with c)
\* into a give the same node ids, tombstone flags and visible sequence.
C4_MergeAssociative ==
    \A a, b, c \in Replicas :
        (a # b /\ b # c /\ a # c) =>
        LET left == merge(merge(nodes[a], nodes[b]), nodes[c])
            right == merge(nodes[a], merge(nodes[b], nodes[c]))
        IN  /\ IdSet(left) = IdSet(right)
            /\ NodeSet(left) = NodeSet(right)
            /\ toArray(left) = toArray(right)

\* three replicas: b and c share a node a lacks, live in b and tombstoned in c
C4_Witness ==
    \E a, b, c \in Replicas :
        \E i \in DOMAIN nodes[b] : \E j \in DOMAIN nodes[c] :
            /\ nodes[b][i].id = nodes[c][j].id
            /\ nodes[b][i].id \notin IdSet(nodes[a])
            /\ ~nodes[b][i].tombstone /\ nodes[c][j].tombstone

\* C5 (monotonicity): no step of insert, delete or merge removes a node from a
\* replica's map, changes a node's id or afterId, or clears a tombstone.
C5_Monotonic ==
    [][\A r \in Replicas : \A i \in DOMAIN nodes[r] :
          \E j \in DOMAIN nodes'[r] :
              /\ nodes'[r][j].id = nodes[r][i].id
              /\ nodes'[r][j].afterId = nodes[r][i].afterId
              /\ nodes'[r][j].value = nodes[r][i].value
              /\ (nodes[r][i].tombstone => nodes'[r][j].tombstone)]_vars

\* a replica holds a tombstoned node that a peer, which it can merge, holds live
C5_Witness ==
    \E r, s \in Replicas :
        /\ Len(nodes[r]) > Len(BaseItems)
        /\ \E i \in DOMAIN nodes[r] : \E j \in DOMAIN nodes[s] :
              /\ nodes[r][i].id = nodes[s][j].id
              /\ nodes[r][i].tombstone /\ ~nodes[s][j].tombstone

\* scenario S2: replica 1 holds the base and b1 after a, replica 2 the base and
\* b2 after a, and b1's event precedes b2's
S2_State ==
    /\ Len(nodes[1]) = 3 /\ Len(nodes[2]) = 3
    /\ \A i \in 1..3 : ~nodes[1][i].tombstone /\ ~nodes[2][i].tombstone
    /\ nodes[1][3].afterId = nodes[1][1].id
    /\ nodes[2][3].afterId = nodes[2][1].id
    /\ compareEvents(nodes[1][3].id.event, nodes[2][3].id.event) < 0

\* C10 (scenario S2): from the base [a, c], with b1 inserted after a by replica 1
\* (event r1) and b2 inserted after a by replica 2 (event r2), r1 < r2, merging
\* in either direction yields exactly [a, b1, b2, c].
C10_S2_Order ==
    S2_State =>
        /\ toArray(merge(nodes[1], nodes[2])) = <<"a", "b1", "b2", "c">>
        /\ toArray(merge(nodes[2], nodes[1])) = <<"a", "b1", "b2", "c">>

\* scenario S3: built from [a, b, c]; replica 1 has deleted b, replica 2 has
\* inserted x after b
S3_State ==
    /\ fromItems = <<"a", "b", "c">>
    /\ Len(nodes[1]) = 3 /\ Len(nodes[2]) = 4
    /\ nodes[1][2].tombstone /\ ~nodes[1][1].tombstone /\ ~nodes[1][3].tombstone
    /\ \A i \in 1..4 : ~nodes[2][i].tombstone
    /\ nodes[2][4].afterId = nodes[2][2].id

\* C11 (scenario S3): from the base [a, b, c], when replica 1 deletes b and
\* replica 2 inserts x after b, the merge yields exactly [a, x, c].
C11_S3_Order ==
    S3_State =>
        /\ toArray(merge(nodes[1], nodes[2])) = <<"a", "x", "c">>
        /\ toArray(merge(nodes[2], nodes[1])) = <<"a", "x", "c">>

\* the elements of seq at the positions outside D, in order
Without(seq, D) ==
    LET idx == SelectSeq([i \in DOMAIN seq |-> i], LAMBDA i : i \notin D)
    IN  [j \in DOMAIN idx |-> seq[idx[j]]]

\* C20 (scenario S1): an RGA built by fromArray from any list of items shows the
\* items in their order, and after the id of one element is deleted it shows
\* the list without exactly that element, the others in their original order.
C20_FromArrayDelete ==
    \A r \in DOMAIN nodes :
        Len(nodes[r]) = Len(fromItems) =>
            toArray(nodes[r]) =
                Without(fromItems, {i \in DOMAIN nodes[r] : nodes[r][i].tombstone})

\* built from three items, the first two equal, the second one deleted
C20_Witness ==
    /\ Len(fromItems) = 3 /\ fromItems[1] = fromItems[2]
    /\ DOMAIN nodes = SeqReplicas
    /\ Len(nodes[1]) = 3 /\ nodes[1][2].tombstone
    /\ nodes[1][1].id.uuid > nodes[1][2].id.uuid

\* ----------------------------------------------------- claims: RGA tree
\* C6 (document round trip of an edit): the tree applyMdast returns for a new
\* document d and an event e projects back to d, the same nodes in the same
\* order at every depth.
C6_RoundTrip ==
    \A r \in DOMAIN out : out[r] # NoTree => toMdast(out[r]) = edit.doc

\* C9 (applying is deterministic): two independent applications of the same
\* edit to the same tree, each minting its own uuids, project to the same
\* document.
C9_Deterministic ==
    (DOMAIN out = Appliers /\ out[1] # NoTree /\ out[2] # NoTree)
        => toMdast(out[1]) = toMdast(out[2])

\* C7 (order independence of changesets): when two changesets generated against
\* the same tree with different events have been applied as A then B at one
\* replica and as B then A at the other, the two trees project to the same
\* document.
C7_OrderIndependent ==
    (/\ DOMAIN applied = CSReplicas
     /\ applied[1] = <<"A", "B">> /\ applied[2] = <<"B", "A">>
     /\ cs["A"].event # cs["B"].event)
        => toMdast(repl[1]) = toMdast(repl[2])

\* C8 (changeset exchange equals state merge): the document of
\* apply(apply(t, csA), csB) is the document of
\* mergeTrees(apply(t, csA), apply(t, csB)).
C8_ExchangeEqualsMerge ==
    (/\ DOMAIN applied = CSReplicas
     /\ applied[1] = <<"A", "B">> /\ merged # NoTree)
        => toMdast(repl[1]) = toMdast(merged)

\* C12 (ID preservation under unchanged content): applying to a tree the edit
\* whose document is the tree's own projection, with any event, gives a tree
\* with the same nodes at every depth: the same ids, none added, none
\* tombstoned.  Checked for the tree the edit is applied to and for every tree an
\* edit has produced.
C12_IdPreservation ==
    \A r \in DOMAIN out :
        out[r] # NoTree =>
            /\ edit.doc = toMdast(base) => out[r] = base
            /\ \A e \in Events :
                 applyMdast(out[r], toMdast(out[r]), e, BaseSupply) = out[r]

\* the tree's own two-block document has been applied to it
C12_Witness ==
    /\ DOMAIN out = Appliers /\ out[1] # NoTree
    /\ edit.doc = toMdast(base)
    /\ Len(base.children) = 2
    /\ \E i \in 1..2 : isRGAParent(base.children[i].value)

\* C13 (identity of untouched nodes under an edit): after applyMdast(t, d, e2)
\* every top-level node of t that the diff of toMdast(t) against d leaves
\* alone is still in the result under its NodeId with its record unchanged
\* (so it is still visible and its nested ids are the old ones), and every id
\* the application created, at any depth, carries the event e2.
C13_UntouchedKeepIds ==
    out[1] # NoTree =>
        /\ LET m == Matches(toMdast(base).children, edit.doc.children)
           IN \A k \in DOMAIN m :
                LET id == idAtIndex(base.children, m[k][1])
                IN /\ MapHas(out[1].children, id)
                   /\ MapGet(out[1].children, id) = MapGet(base.children, id)
        /\ \A id \in AllIds(out[1].children) \ AllIds(base.children) :
                id.event = edit.event

C13_Witness ==
    /\ out[1] # NoTree
    /\ Len(base.children) = 2
    /\ Len(edit.doc.children) = MaxNewBlocks
    /\ Len(Matches(toMdast(base).children, edit.doc.children)) = 1
    /\ AllIds(out[1].children) \ AllIds(base.children) # {}

\* the part of C13 about created nodes alone: every new id carries the event
C13_NewIdsCarryEvent ==
    out[1] # NoTree =>
        \A id \in AllIds(out[1].children) \ AllIds(base.children) :
            id.event = edit.event

ChangesIn(changeset, id) ==
    SelectSeq(changeset.changes, LAMBDA c : c.parentPath = <<id>>)

RECURSIVE InsertedCount(_)
InsertedCount(changes) ==
    IF changes = <<>> THEN 0
    ELSE (IF Head(changes).type = "delete" THEN 0 ELSE Len(Head(changes).nodes))
            + InsertedCount(Tail(changes))

\* C15 (ID-addressed application): when a replica applies a changeset, also
\* after it applied another one that shifted the indices, every change is
\* executed in the children RGA of the parent its parentPath names: that RGA
\* gets the change's new nodes and has the change's target tombstoned, and the
\* children RGA of a parent no change names is left as it was.
C15_IdAddressed ==
    [][\A r \in CSReplicas :
          applied'[r] # applied[r] =>
            LET k == applied'[r][Len(applied'[r])]
                before == repl[r].children
                after == repl'[r].children
            IN  \A i \in DOMAIN before :
                  isRGAParent(before[i].value) =>
                    LET id == before[i].id
                        named == ChangesIn(cs[k], id)
                        was == before[i].value.children
                        now == MapGet(after, id).value.children
                    IN  /\ named = <<>> => now = was
                        /\ Len(now) = Len(was) + InsertedCount(named)
                        /\ \A j \in DOMAIN named :
                             /\ named[j].type # "insert"
                             /\ MapHas(was, named[j].targetId)
                             => MapGet(now, named[j].targetId).tombstone]_vars

\* replica 1 applied A, which moved a parent to another index, and then B, which
\* has a change inside that parent
C15_Witness ==
    /\ applied[1] = <<"A", "B">>
    /\ \E i \in DOMAIN base.children :
         LET id == base.children[i].id
         IN  /\ ChangesIn(cs["B"], id) # <<>>
             /\ IndexOfId(repl[1].children, id) >= 0
             /\ IndexOfId(repl[1].children, id) # IndexOfId(base.children, id)
             /\ \E c \in NodeSet(MapGet(repl[1].children, id).value.children) :
                    c.tombstone

\* the RGA that walking parentPath by NodeId from rga reaches; <<>> with ok
\* FALSE when an id is missing or names a leaf
RECURSIVE Reached(_, _, _)
Reached(rga, parentPath, k) ==
    IF k > Len(parentPath) THEN [ok |-> TRUE, rga |-> rga]
    ELSE IF ~MapHas(rga, parentPath[k]) THEN [ok |-> FALSE, rga |-> <<>>]
    ELSE IF ~isRGAParent(MapGet(rga, parentPath[k]).value)
         THEN [ok |-> FALSE, rga |-> <<>>]
         ELSE Reached(MapGet(rga, parentPath[k]).value.children, parentPath, k + 1)

\* a change that resolves in the tree: its parent path leads to an RGA, and the
\* target of a delete or modify is in that RGA
Resolves(t, c) ==
    LET w == Reached(t.children, c.parentPath, 1)
    IN  w.ok /\ (c.type = "insert" \/ MapHas(w.rga, c.targetId))

\* the same, but a modify counts as resolving whenever its parent path does
ResolvesButModify(t, c) ==
    LET w == Reached(t.children, c.parentPath, 1)
    IN  w.ok /\ (c.type # "delete" \/ MapHas(w.rga, c.targetId))

\* C16 (unresolvable changes are dropped): when replica 2 applies B to the
\* tree without A, the result is what applying only the changes of B that
\* resolve in that tree gives: a change whose parent path names an absent node
\* or a leaf, or whose target is absent, is skipped, the others are applied and
\* nothing else changes.
C16_UnresolvableDropped ==
    applied[2] = <<"B">> =>
        \E s \in UpSupplies(3) :
            repl[2] = applyRGAChangeSet(base,
                          [cs["B"] EXCEPT !.changes =
                               SelectSeq(@, LAMBDA c : Resolves(base, c))], s)

\* what holds of C16: changes with an unresolvable parent path and deletes of
\* an absent target are skipped, the others are applied
C16_PathOrDeleteDropped ==
    applied[2] = <<"B">> =>
        \E s \in UpSupplies(3) :
            repl[2] = applyRGAChangeSet(base,
                          [cs["B"] EXCEPT !.changes =
                               SelectSeq(@, LAMBDA c : ResolvesButModify(base, c))], s)

C16_Witness ==
    /\ applied[2] = <<"B">>
    /\ \E i \in DOMAIN cs["B"].changes : ~Resolves(base, cs["B"].changes[i])
    /\ \E i \in DOMAIN cs["B"].changes : Resolves(base, cs["B"].changes[i])
    /\ repl[2] # base

\* C17 (computing a changeset never aborts): for the tree, for every tree a
\* replica holds and for every new document, generateRGAChangeSet completes:
\* resolving an insert never raises, also when the insert's index lies beyond
\* the visible length of the RGA it is resolved in.
C17_NeverAborts ==
    \A t \in {base} \cup {repl[r] : r \in DOMAIN repl} :
        \A d \in CSDocs, e \in Events :
            ~generateRGAChangeSet(t, d, e).threw

\* where it does complete, every change it emits is resolved to ids
C17_Witness ==
    /\ Len(toMdast(base).children) = 1
    /\ \E d \in CSDocs :
         /\ Len(d.children) = MaxBlocks
         /\ ~generateRGAChangeSet(base, d, 1).threw
         /\ generateRGAChangeSet(base, d, 1).changes # <<>>

\* m holds the union of the nodes of a and b, a node is tombstoned in m iff it
\* is in a or in b, the visible nodes of m are its nodes without a tombstone,
\* and the same holds of the children RGAs of every parent both sides hold; a
\* parent of one side only has that side's children RGA
RECURSIVE UnionOfBoth(_, _, _)
UnionOfBoth(a, b, m) ==
    /\ IdSet(m) = IdSet(a) \cup IdSet(b)
    /\ IdSet(toNodes(m)) = {m[i].id : i \in {j \in DOMAIN m : ~m[j].tombstone}}
    /\ \A i \in DOMAIN m :
         LET id == m[i].id
             inA == MapHas(a, id)
             inB == MapHas(b, id)
         IN  /\ m[i].tombstone <=> \/ inA /\ MapGet(a, id).tombstone
                                   \/ inB /\ MapGet(b, id).tombstone
             /\ isRGAParent(m[i].value) =>
                  IF inA /\ inB
                  THEN UnionOfBoth(MapGet(a, id).value.children,
                                   MapGet(b, id).value.children,
                                   m[i].value.children)
                  ELSE IF inA
                  THEN m[i].value.children = MapGet(a, id).value.children
                  ELSE m[i].value.children = MapGet(b, id).value.children

\* C18 (tree merge is a recursive union where tombstones win): the merge of
\* the trees of replica 1 (which applied A) and replica 2 (which applied B)
\* holds, in every RGA of a parent both trees have, the nodes of both sides, a
\* node tombstoned iff one side has it tombstoned; so a node one side deleted
\* is not in the merged document and what both sides added inside one parent
\* is all there.
C18_MergeUnion ==
    (merged # NoTree /\ applied[1] = <<"A">> /\ applied[2] = <<"B">>) =>
        UnionOfBoth(repl[1].children, repl[2].children, merged.children)

\* each side replaced the text of the same paragraph: the merged paragraph has
\* the old text tombstoned and both new texts visible
C18_Witness ==
    /\ merged # NoTree /\ applied[1] = <<"A">> /\ applied[2] = <<"B">>
    /\ \E i \in DOMAIN merged.children :
         LET n == merged.children[i]
             kids == n.value.children
         IN  /\ ~n.tombstone
             /\ Len(kids) = 3
             /\ Len(toNodes(kids)) = 2
             /\ Len(MapGet(repl[1].children, n.id).value.children) = 2
             /\ Len(MapGet(repl[2].children, n.id).value.children) = 2
    /\ \E i \in DOMAIN merged.children :
         /\ merged.children[i].tombstone
         /\ \E r \in CSReplicas :
              ~MapGet(repl[r].children, merged.children[i].id).tombstone

\* C19 (tree conversion round trip): for any mdast root, any event and
\* whatever uuids are minted, toMdast(toRGATree(root, e)) equals root: the
\* same types, the same attributes besides children, and the same children in
\* the same order at every depth.
C19_ConversionRoundTrip ==
    out # <<>> => out[1] = edit.doc

\* what holds of C19: below the root everything comes back as it was
C19_ChildrenRoundTrip ==
    out # <<>> => out[1].children = edit.doc.children

C19_Witness ==
    /\ out # <<>>
    /\ out[1].children = edit.doc.children
    /\ Len(edit.doc.children) = MaxBlocks
    /\ edit.doc.children[1].type = "list"
    /\ edit.doc.children[2].type = "heading"

PosOf(ns, id) ==
    IF \E i \in DOMAIN ns : ns[i].id = id
    THEN CHOOSE i \in DOMAIN ns : ns[i].id = id
    ELSE 0

\* n is id's node or comes under it in the afterId tree of m
RECURSIVE IsUnder(_, _, _)
IsUnder(m, n, id) ==
    \/ n.id = id
    \/ /\ n.afterId # NoId
       /\ MapHas(m, n.afterId)
       /\ IsUnder(m, MapGet(m, n.afterId), id)

\* C30 (traversal order): toAllNodes lists every node of the map once, a node
\* after the node it was inserted after, and for two siblings the one with
\* the smaller (event, uuid) first, with everything under it, before the other;
\* siblings of one event go by uuid.
C30_TraversalOrder ==
    \A r \in Replicas :
        LET m == nodes[r]
            ns == toAllNodes(m)
        IN  /\ Len(ns) = Len(m)
            /\ NodeSet(ns) = NodeSet(m)
            /\ \A i \in DOMAIN m :
                 m[i].afterId # NoId =>
                    PosOf(ns, m[i].afterId) < PosOf(ns, m[i].id)
            /\ \A i, j \in DOMAIN m :
                 (/\ m[i].afterId = m[j].afterId
                  /\ \/ m[i].id.event < m[j].id.event
                     \/ /\ m[i].id.event = m[j].id.event
                        /\ m[i].id.uuid < m[j].id.uuid)
                 => \A k \in DOMAIN m :
                        IsUnder(m, m[k], m[i].id) =>
                            PosOf(ns, m[k].id) < PosOf(ns, m[j].id)

\* a replica holds two siblings of one event, the one with the smaller uuid
\* inserted later and with a node under it
C30_Witness ==
    \E r \in Replicas : \E i, j, k \in DOMAIN nodes[r] :
        LET m == nodes[r]
        IN  /\ m[i].afterId = m[j].afterId
            /\ m[i].id.event = m[j].id.event
            /\ m[i].id.uuid < m[j].id.uuid
            /\ j < i
            /\ m[k].afterId = m[i].id
            /\ PosOf(toAllNodes(m), m[k].id) < PosOf(toAllNodes(m), m[j].id)

\* C25 (index-based diff round trip): for any two roots a and b,
\* applyChangeSet(a, diff(a, b)) equals b, also when a node is deleted before
\* a node whose children are edited.
C25_DiffRoundTrip ==
    ret.step = 2 => ret.root = args.b

\* the round trip where it does hold: a paragraph's text edited, a block added
C25_Witness ==
    /\ ret.step = 2
    /\ ret.root = args.b
    /\ Len(args.a.children) = 1
    /\ Len(args.b.children) = 2
    /\ \E i \in DOMAIN ret.changes : Len(ret.changes[i].path) = 2

\* C26 (diff of identical documents is empty): for any root a and a root with
\* the same content, diff returns a changeset with no changes.
C26_IdenticalEmpty ==
    (ret.step >= 1 /\ args.a = args.b) => ret.changes = <<>>

C26_Witness ==
    /\ ret.step >= 1
    /\ args.a = args.b
    /\ Len(args.a.children) = MaxBlocks
    /\ args.a.children[1] = args.a.children[2]
    /\ ret.changes = <<>>

\* ------------------------------------------------------- claims: codec
\* the nodes of an RGA as a set, with the nodes of every children RGA below
RECURSIVE DeepNodeSet(_)
DeepNodeSet(rga) ==
    {[id |-> rga[i].id, afterId |-> rga[i].afterId, tombstone |-> rga[i].tombstone,
      value |-> IF isRGAParent(rga[i].value)
                THEN [rga[i].value EXCEPT !.children = DeepNodeSet(@)]
                ELSE rga[i].value] : i \in DOMAIN rga}

\* the toAllNodes order of an RGA and of every children RGA below
RECURSIVE DeepOrder(_)
DeepOrder(rga) ==
    LET all == toAllNodes(rga)
    IN  [i \in DOMAIN all |->
            [id |-> all[i].id,
             below |-> IF isRGAParent(all[i].value)
                       THEN DeepOrder(all[i].value.children) ELSE <<>>]]

C23_ChangeSetRoundTrip ==
    /\ (ret.step >= 2 /\ ret.kind = "changeset" /\ ret.damage = "none") =>
         /\ ret.decoded.ok
         /\ ret.decoded.value.event = args.changeset.event
         /\ ret.block.bytes.event = eventToString(args.changeset.event)
         /\ ret.decoded.value.changes = args.changeset.changes
    /\ (ret.step = 3) => toMdast(ret.viaDecoded) = toMdast(ret.viaOriginal)

\* a changeset with an absent afterId, a targetId and a non-empty parentPath
\* went through the codec and was applied
C23_Witness ==
    /\ ret.step = 3
    /\ \E i \in DOMAIN args.changeset.changes :
         /\ args.changeset.changes[i].type = "insert"
         /\ args.changeset.changes[i].afterId = NoId
    /\ \E i \in DOMAIN args.changeset.changes : args.changeset.changes[i].targetId # NoId
    /\ toMdast(ret.viaDecoded) # toMdast(base)

\* C24 (invalid serialized input is reported): decoding a serialized tree or
\* changeset with a missing field or a malformed event string gives a decode
\* error, never a value.
C24_InvalidReported ==
    (ret.step = 2 /\ ret.damage \notin {"none", "reordered"}) => ~ret.decoded.ok

\* ------------------------------------------------ claims: three-way merge
Count(v, kids) == Cardinality({i \in DOMAIN kids : kids[i] = v})

\* the side has as many blocks v as the base, and its matching with the base
\* keeps every base block v
Untouched(v, side) ==
    LET baseFps == [i \in DOMAIN args.base.children |->
                        fingerprint(args.base.children[i])]
        sideFps == [i \in DOMAIN side |-> fingerprint(side[i])]
        m == lcsMatchesFrom(baseFps, sideFps, lcsTable(baseFps, sideFps),
                            Len(baseFps), Len(sideFps))
    IN  /\ Count(v, side) = Count(v, args.base.children)
        /\ \A i \in DOMAIN args.base.children :
             args.base.children[i] = v => \E k \in DOMAIN m : m[k][1] = i - 1

Deleted(v, side) == Count(v, args.base.children) > 0 /\ Count(v, side) = 0

Inserted(v, side) == Count(v, side) > Count(v, args.base.children)

\* C28 (three-way merge keeps both sides' work): in threeWayMerge(base,
\* diff(base, A), diff(base, B)) every block that A or B has more often than
\* the base is in the merged document, every base block that one side removed
\* and the other left untouched is absent, and a block both sides left
\* untouched is there as often as in the base.
C28_KeepsBothSides ==
    ret.step = 2 =>
        \A v \in Blocks :
            /\ (Inserted(v, args.alice.children) \/ Inserted(v, args.bob.children))
                  => Count(v, ret.merged.children) > 0
            /\ (\/ Deleted(v, args.alice.children) /\ Untouched(v, args.bob.children)
                \/ Deleted(v, args.bob.children) /\ Untouched(v, args.alice.children))
                  => Count(v, ret.merged.children) = 0
            /\ (/\ Count(v, args.base.children) > 0
                /\ Untouched(v, args.alice.children)
                /\ Untouched(v, args.bob.children))
                  => Count(v, ret.merged.children) = Count(v, args.base.children)

\* C29 (three-way merge conflicts are last-writer-wins): when both sides
\* replace the block at one index of the base by different blocks, the merged
\* document holds the block of the side with the later timestamp and not the
\* block of the other side.
C29_LastWriterWins ==
    ret.step = 2 =>
        \A i \in DOMAIN args.base.children :
            LET old == args.base.children[i]
                later == IF args.tsA > args.tsB THEN args.alice.children
                         ELSE args.bob.children
                earlier == IF args.tsA > args.tsB THEN args.bob.children
                           ELSE args.alice.children
            IN  (/\ Len(later) = Len(args.base.children)
                 /\ Len(earlier) = Len(args.base.children)
                 /\ later[i] # old /\ earlier[i] # old /\ later[i] # earlier[i]
                 /\ \A j \in DOMAIN args.base.children \ {i} :
                        later[j] = args.base.children[j]
                        /\ earlier[j] = args.base.children[j]
                 /\ Count(earlier[i], args.base.children) = 0)
                => /\ Count(later[i], ret.merged.children) > 0
                   /\ Count(earlier[i], ret.merged.children) = 0

\* ------------------------------- claims: applyMdastToRGATree as a shorthand
\* the ids of the tombstoned nodes of an RGA and of every children RGA below
RECURSIVE TombstonedIds(_)
TombstonedIds(rga) ==
    {rga[i].id : i \in {j \in DOMAIN rga : rga[j].tombstone}}
        \cup UNION {IF isRGAParent(rga[i].value)
                    THEN TombstonedIds(rga[i].value.children) ELSE {} :
                    i \in DOMAIN rga}

\* C27 (applyMdastToRGATree is shorthand for generate plus apply): for any
\* tree, new document and event, generateRGAChangeSet returns a changeset, and
\* applyRGAChangeSet of it gives the projected document of applyMdastToRGATree
\* and tombstones the same nodes of the tree.
C27_ShorthandForGenerateApply ==
    ret.step = 2 =>
        /\ ~ret.threw
        /\ toMdast(ret.via) = toMdast(ret.direct)
        /\ TombstonedIds(ret.via.children) \cap AllIds(base.children)
             = TombstonedIds(ret.direct.children) \cap AllIds(base.children)

\* ------------------------ one change of several nodes applied to a tree
MultiNodes == SeqsUpTo(Blocks, 2, 2)

MultiChanges(d) ==
    {Change(t, <<i>>, ns, <<>>) :
        t \in {"insert", "modify"}, i \in 0..Len(d.children), ns \in MultiNodes}

MultiInit ==
    \E d \in Docs, e \in Events : \E c \in MultiChanges(d) :
        /\ base = toRGATree(d, e, BaseSupply)
        /\ args = [step |-> 0, change |-> c]
        /\ ret = NoCall
        /\ RGAIdle /\ TreeIdle /\ CSIdle /\ HeapIdle

\* applyChangesAtDepth(children, [change], [], event, compareEvents)
ApplyChangesAtDepth(event, s) ==
    /\ ret.step = 0
    /\ ret' = [step |-> 1, event |-> event,
               children |-> applyChangesAtDepth(cloneRGA(base.children),
                                                <<args.change>>, <<>>, event, s).rga]
    /\ UNCHANGED <<args, base, rgaVars, treeVars, csVars, heapVars>>

MultiNext == \E e \in Events : \E s \in Supplies(1) : ApplyChangesAtDepth(e, s)

SpecMulti == MultiInit /\ [][MultiNext]_vars

\* ------------- a sender's nodes delivered to a receiver in parts, any order
Receiver == "receiver"

Sender == "sender"

SentItems == <<"a", "b">>

SentUuids == <<1, 2>>

\* an RGA that holds the nodes of m at the places S of its Map, in Map order
Part(m, S) == SelectSeq([i \in DOMAIN m |-> [at |-> i, node |-> m[i]]],
                        LAMBDA x : x.at \in S)

PartNodes(m, S) == [i \in DOMAIN Part(m, S) |-> Part(m, S)[i].node]

\* the ids a Map stores without listing them
Unlisted(m) == IdSet(m) \ IdSet(toAllNodes(m))

DeliveryInit ==
    \E e \in Events :
        /\ nodes = [receiver |-> <<>>, sender |-> fromArray(SentItems, e, SentUuids)]
        /\ used = {SentUuids[i] : i \in DOMAIN SentUuids}
        /\ ndel = 0
        /\ fromItems = SentItems
        /\ args = NoCall
        /\ ret = [step |-> 0, delivered |-> {}, unlisted |-> {}]
        /\ base = NoTree /\ TreeIdle /\ CSIdle /\ HeapIdle

\* receiver.merge(part), part an RGA of some of the sender's nodes; ret keeps
\* the ids of the part and the ids the receiver stored without listing them
\* before the merge
Deliver(S) ==
    /\ nodes' = [nodes EXCEPT ![Receiver] = merge(@, PartNodes(nodes[Sender], S))]
    /\ ret' = [step |-> 1, delivered |-> IdSet(PartNodes(nodes[Sender], S)),
               unlisted |-> Unlisted(nodes[Receiver])]
    /\ UNCHANGED <<used, ndel, fromItems, args, base, treeVars, csVars, heapVars>>

\* the sender inserts MaxInserts elements
SenderInsert(afterId, event, uuid) ==
    /\ Len(nodes[Sender]) < Len(SentItems) + MaxInserts
    /\ Insert(Sender, afterId, "x", event, uuid)

DeliveryNext ==
    \/ \E e \in Events, u \in Uuids :
         \E a \in IdSet(nodes[Sender]) \cup {NoId} : SenderInsert(a, e, u)
    \/ \E id \in IdSet(nodes[Sender]) : Delete(Sender, id)
    \/ \E S \in SUBSET DOMAIN nodes[Sender] : S # {} /\ Deliver(S)

SpecDelivery == DeliveryInit /\ [][DeliveryNext]_vars

\* ---------------- merges of foreign state: any nodes, orphans and cycles too
MaxForeign == 2

MaxMerges == 2

\* the ids foreign state is made of; event order and uuid order differ
ForeignIds == {NodeId(1, 2), NodeId(2, 1), NodeId(3, 1)}

\* any predecessor and tombstone for every id; two values for the first id
ForeignNodes ==
    {n \in [id : ForeignIds, value : {"a", "b"}, afterId : ForeignIds \cup {NoId},
            tombstone : BOOLEAN] : n.value = "b" => n.id.uuid = 1}

\* the Maps of up to MaxForeign nodes, one node for a key
ForeignMaps ==
    {m \in SeqsUpTo(ForeignNodes, 1, MaxForeign) :
        \A i, j \in DOMAIN m : i < j => m[i].id.uuid < m[j].id.uuid}

ForeignInit ==
    /\ nodes = [a |-> <<>>, b |-> <<>>]
    /\ ret = [step |-> 0, op |-> "none", id |-> NoId, before |-> <<>>]
    /\ args = NoCall
    /\ used = {} /\ ndel = 0 /\ fromItems = <<>>
    /\ base = NoTree /\ TreeIdle /\ CSIdle /\ HeapIdle

\* a.merge(b) with b an RGA of foreign state (decoded, or built on its nodes
\* Map); ret keeps a's Map of before the merge.  MaxMerges operations are made.
MergeForeign(other) ==
    /\ ret.step < MaxMerges
    /\ nodes' = [a |-> merge(nodes.a, other), b |-> other]
    /\ ret' = [step |-> ret.step + 1, op |-> "merge", id |-> NoId, before |-> nodes.a]
    /\ UNCHANGED <<used, ndel, fromItems, args, base, treeVars, csVars, heapVars>>

\* a.delete(id) with any id, held or not; ret keeps the id and a's Map of before
DeleteForeign(id) ==
    /\ ret.step < MaxMerges
    /\ nodes' = [nodes EXCEPT !.a = delete(@, id)]
    /\ ret' = [step |-> ret.step + 1, op |-> "delete", id |-> id, before |-> nodes.a]
    /\ UNCHANGED <<used, ndel, fromItems, args, base, treeVars, csVars, heapVars>>

ForeignNext ==
    \/ \E other \in ForeignMaps : MergeForeign(other)
    \/ \E id \in ForeignIds : DeleteForeign(id)

SpecForeign == ForeignInit /\ [][ForeignNext]_vars

\* --------------------------------- one changeset applied to a tree twice
ReplayInit ==
    \E d \in Docs, newRoot \in Docs, e \in Events :
        /\ base = toRGATree(d, e, BaseSupply)
        /\ args = [step |-> 0, changes |-> diff(d, newRoot)]
        /\ ret = NoCall
        /\ RGAIdle /\ TreeIdle /\ CSIdle /\ HeapIdle

\* applyChangesAtDepth(clone of the tree's children, changes, [], event, cmp)
ApplyOnce(event, s) ==
    /\ ret.step = 0
    /\ ret' = [step |-> 1, event |-> event,
               once |-> applyChangesAtDepth(cloneRGA(base.children), args.changes,
                                            <<>>, event, s).rga]
    /\ UNCHANGED <<args, base, rgaVars, treeVars, csVars, heapVars>>

\* the same changes, with the same event, applied to the result
ApplyAgain(s) ==
    /\ ret.step = 1
    /\ ret' = [step |-> 2, event |-> ret.event, once |-> ret.once,
               twice |-> applyChangesAtDepth(cloneRGA(ret.once), args.changes,
                                             <<>>, ret.event, s).rga]
    /\ UNCHANGED <<args, base, rgaVars, treeVars, csVars, heapVars>>

ReplayNext ==
    \/ \E e \in Events : \E s \in UpSupplies(1) : ApplyOnce(e, s)
    \/ \E s \in UpSupplies(2) : ApplyAgain(s)

SpecReplay == ReplayInit /\ [][ReplayNext]_vars

\* ------------------------------------- claims: RGA operations, one by one
\* C31 (insertion at an index): for 0 <= i <= n, n the visible length,
\* predecessorForIndex(i) is none when i = 0 and otherwise the id of the
\* visible element at position i - 1, and a step that inserts after that id
\* makes the new element the visible element at position i.
C31_InsertAtIndex ==
    [][used' # used =>
         \A r \in Replicas :
            nodes'[r] # nodes[r] =>
                LET old == nodes[r]
                    new == nodes'[r]
                    n == new[Len(new)]
                    vis == toNodes(old)
                IN  \A i \in 0..Len(vis) :
                        /\ predecessorForIndex(old, i)
                             = IF i = 0 THEN NoId ELSE vis[i].id
                        /\ n.afterId = predecessorForIndex(old, i)
                             => toNodes(new)[i + 1].id = n.id]_vars

\* the positions in the visible order of the nodes an application added
AddedAt(before, after) ==
    {i \in DOMAIN toNodes(after) : toNodes(after)[i].id \notin IdSet(before)}

NoNode == [type |-> "none"]

\* the node a path of child indices (0-based) reaches from node, NoNode when a
\* step leaves the tree
RECURSIVE NodeAtPath(_, _, _)
NodeAtPath(node, path, k) ==
    IF k > Len(path) THEN node
    ELSE IF ~hasChildren(node) \/ path[k] + 1 > Len(node.children) THEN NoNode
    ELSE NodeAtPath(node.children[path[k] + 1], path, k + 1)

\* C33 (diff paths address the old tree): for every change of diff(old, new),
\* the path of a delete reaches in old the node deleted, the path of a modify
\* reaches the node equal to `before`, and the prefix of the path of a nested
\* change reaches a parent of old.
C33_PathsAddressOld ==
    ret.step >= 1 =>
        \A i \in DOMAIN ret.changes :
            LET c == ret.changes[i]
            IN  /\ c.type = "delete" => NodeAtPath(args.a, c.path, 1) = c.nodes[1]
                /\ c.type = "modify" => NodeAtPath(args.a, c.path, 1) = c.before[1]
                /\ Len(c.path) > 1 =>
                      hasChildren(NodeAtPath(args.a,
                                             SubSeq(c.path, 1, Len(c.path) - 1), 1))

\* ------------------------------------------ claims: out-of-order delivery
\* id waits in m: it, or a node on the way from it to the root, has an afterId
\* that names a node m does not hold
RECURSIVE Waits(_, _, _)
Waits(m, id, fuel) ==
    /\ id # NoId
    /\ \/ ~MapHas(m, id)
       \/ fuel > 0 /\ Waits(m, MapGet(m, id).afterId, fuel - 1)

Waiting(m) == {id \in IdSet(m) : Waits(m, MapGet(m, id).afterId, Len(m))}

\* C34 (out-of-order delivery): a merge stores every node it is given; a node
\* whose afterId names a node not in the map, and every node inserted after
\* it, is in none of toAllNodes, toNodes, toArray; once a merge has brought
\* the predecessors that were missing they are all listed, the live ones
\* visibly.
C34_OutOfOrderDelivery ==
    [][nodes'[Sender] = nodes[Sender] =>
          LET a == nodes[Receiver]
              a2 == nodes'[Receiver]
          IN  /\ \A id \in ret'.delivered \cup IdSet(a) : MapHas(a2, id)
              /\ \A id \in Waiting(a2) :
                    /\ id \notin IdSet(toAllNodes(a2))
                    /\ id \notin IdSet(toNodes(a2))
                    /\ Len(toArray(a2)) = Len(toNodes(a2))
              /\ \A id \in Waiting(a) \ Waiting(a2) :
                    /\ id \in IdSet(toAllNodes(a2))
                    /\ ~MapGet(a2, id).tombstone =>
                          \E i \in DOMAIN toNodes(a2) :
                              /\ toNodes(a2)[i].id = id
                              /\ toArray(a2)[i] = MapGet(a2, id).value]_vars

\* a node the receiver stored without listing it is now visible
C34_Witness ==
    /\ ret.step = 1
    /\ \E id \in ret.unlisted : id \in IdSet(toNodes(nodes[Receiver]))

\* -------------------------------------- claims: inserts, deletes and merges
\* C35 (insert after a deleted element survives): on every replica, an element
\* inserted after X is visible (once, with its value) while X is tombstoned
\* and hidden, whether the insert came after the delete on one replica or the
\* two were made on different replicas and merged, in either order.
C35_InsertAfterDeleted ==
    \A r \in Replicas :
        \A i \in DOMAIN nodes[r] :
            LET n == nodes[r][i]
                vis == toNodes(nodes[r])
            IN  /\ n.afterId # NoId
                /\ MapHas(nodes[r], n.afterId)
                /\ MapGet(nodes[r], n.afterId).tombstone
                /\ ~n.tombstone
                => /\ Cardinality({k \in DOMAIN vis : vis[k].id = n.id}) = 1
                   /\ \A k \in DOMAIN vis :
                         /\ vis[k].id # n.afterId
                         /\ vis[k].id = n.id => toArray(nodes[r])[k] = n.value

\* replica 1 deleted X without the insert, replica 2 inserted after X without
\* the delete, and replica 3 has merged both
C35_Witness ==
    \E i \in DOMAIN nodes[2] :
        LET n == nodes[2][i]
        IN  /\ n.value = InsertValue(2)
            /\ n.afterId # NoId
            /\ ~MapGet(nodes[2], n.afterId).tombstone
            /\ ~MapHas(nodes[1], n.id)
            /\ MapHas(nodes[1], n.afterId)
            /\ MapGet(nodes[1], n.afterId).tombstone
            /\ MapHas(nodes[3], n.id)
            /\ MapGet(nodes[3], n.afterId).tombstone
            /\ n.id \in IdSet(toNodes(nodes[3]))

C37_DeleteHarmless ==
    /\ ret.op = "delete"
    /\ \/ ~MapHas(ret.before, ret.id)
       \/ MapGet(ret.before, ret.id).tombstone
    => nodes.a = ret.before

\* a delete of a node that was already tombstoned
C37_Witness ==
    /\ ret.op = "delete"
    /\ MapHas(ret.before, ret.id)
    /\ MapGet(ret.before, ret.id).tombstone

\* id is connected to the virtual root of m: following afterId from it leads,
\* over nodes of m, to `undefined`
RECURSIVE Connected(_, _, _)
Connected(m, id, fuel) ==
    \/ id = NoId
    \/ fuel > 0 /\ MapHas(m, id) /\ Connected(m, MapGet(m, id).afterId, fuel - 1)

\* the nodes of m on a cycle of afterId links, or behind one
Cyclic(m) == {id \in IdSet(m) : ~Connected(m, id, Len(m))} \ Waiting(m)

\* C38 (traversal terminates and never duplicates): for any Map, with orphans
\* and with cycles of afterId links, toAllNodes returns a list that holds each
\* node at most once and exactly the nodes connected to the virtual root.
C38_TraversalTerminates ==
    \A k \in DOMAIN nodes :
        LET m == nodes[k]
            all == toAllNodes(m)
        IN  /\ Len(all) <= Len(m)
            /\ \A i, j \in DOMAIN all : all[i].id = all[j].id => i = j
            /\ \A i \in DOMAIN all : all[i] = MapGet(m, all[i].id)
            /\ IdSet(all) = {id \in IdSet(m) : Connected(m, id, Len(m))}

\* a merge has left a Map with a listed node and two nodes that are each
\* other's predecessor
C38_Witness ==
    /\ ret.op = "merge"
    /\ toAllNodes(nodes.a) # <<>>
    /\ \E x, y \in Cyclic(nodes.a) :
          /\ x # y
          /\ MapGet(nodes.a, x).afterId = y
          /\ MapGet(nodes.a, y).afterId = x

\* the nodes of list whose id is in S, in the order of the list
Among(list, S) == SelectSeq(list, LAMBDA n : n.id \in S)

\* C39 (order stability): an insert, a delete or a merge on a replica leaves
\* two elements that are visible before and after it in the same relative
\* order.
C39_OrderStable ==
    [][\A r \in Replicas :
          nodes'[r] # nodes[r] =>
              \A old \in {toNodes(nodes[r])}, new \in {toNodes(nodes'[r])} :
                  \A both \in {IdSet(old) \cap IdSet(new)} :
                      \A was \in {Among(old, both)}, is \in {Among(new, both)} :
                          /\ Len(was) = Len(is)
                          /\ \A i \in DOMAIN was : was[i].id = is[i].id]_vars

\* a replica that has inserted, taken over another replica's insert and a
\* tombstone, and shows three elements or more
C39_Witness ==
    \E r \in Replicas :
        /\ \E i \in DOMAIN nodes[r] : nodes[r][i].tombstone
        /\ \E i, j \in DOMAIN nodes[r] :
              /\ nodes[r][i].value = InsertValue(1)
              /\ nodes[r][j].value = InsertValue(2)
        /\ Len(toNodes(nodes[r])) >= 3

\* ------------------------------------------- claims: replayed changesets
\* C40 (replayed changesets are harmless): the tree a changeset was applied to
\* twice projects to the same document as the tree it was applied to once.
C40_ReplayHarmless ==
    ret.step = 2 =>
        rgaToChildren(ret.twice) = rgaToChildren(ret.once)

====
